---- MODULE Spec2Model ----
(***************************************************************************)
(* Model of the mmcif-gen operation engine (src/investigation_engine.py),  *)
(* of its Output Store (InvestigationStorage, src/investigation_io.py) and *)
(* of the denormalisation builder and its enrichment steps (CIFReader in   *)
(* src/investigation_io.py, InvestigationPdbe in                           *)
(* src/mmcif_gen/facilities/pdbe.py).                                      *)
(*                                                                         *)
(* Python dicts keep insertion order, and the store's serialisation relies *)
(* on it, so a dict is modelled as a sequence of <<key, value>> pairs with *)
(* unique keys (an "ordered dict").                                        *)
(***************************************************************************)
EXTENDS Integers, Sequences, FiniteSets, TLC

VARIABLES
    pc,           \* position of the engine: constructed / ready / running / done / aborted / crashed
    operations,   \* InvestigationEngine.operations
    loaded,       \* history: the "operations" list of the configuration file as read
    idx,          \* position of run()'s for loop in operations (1-based, next to attempt)
    attempted,    \* history: the positions run() has attempted, in order
    failures,     \* history: for each attempt, whether it raised inside the try block
    log,          \* history: payloads written by logging.error(json.dumps(operation_data))
    data,         \* InvestigationStorage.data: category -> item -> values
    mmcif_order,  \* InvestigationStorage.mmcif_order
    block,        \* the gemmi block write_data_to_cif fills: category -> ordered_category
    file,         \* the output document: <<>> while not written, <<block>> once written
    err,          \* the exception that left run()/pre_run(), "none" if none
    last,         \* history: the last direct call of the store API and its outcome
    model_files,  \* the files at model_file_path: file name -> datablock, in path order
    builder,      \* the class whose pre_run runs: "CIFReader" or "InvestigationPdbe" ("none": no pre_run)
    rdata,        \* reader.data: file name -> datablock, in the order the files were read
    rpc,          \* position of pre_run: the last step that returned, or "raised"
    table,        \* the rows of the table denormalized_data, in rowid order
    warned,       \* history: the entities build_denormalised_data skipped with a warning
    pass,         \* history: how many times pre_run has started on these inputs
    prev,         \* history: the table as the previous pass of pre_run left it
    query_results, \* ColumnLengthDebugger.test_sql_queries: category -> what its query returned
    debug_log,    \* history: the categories test_sql_queries logged a column count mismatch for
    denormalized_data, \* process_entities_in_batches: the records it was called with
    batch_size,   \* config.batch_size
    batch_data,   \* process_entities_in_batches: the local batch_data
    batches,      \* history: the argument of every _insert_batch call, in call order
    bidx,         \* process_entities_in_batches: position of the for loop (1-based, next record)
    bpc,          \* process_entities_in_batches: idle / loop / done / raised
    pdb_ids,      \* download_and_run_pdbe_investigation: the ids it was called with
    validated_pdb_ids, \* the ids validate_pdb_ids returned
    didx,         \* position of the download loop in validated_pdb_ids (1-based, next id)
    downloaded_files, \* the ids downloaded so far
    failed_downloads, \* the ids no URL delivered
    requested,    \* history: the requests made, <<id, "updated" | "archive">>, in order
    temp_dir,     \* the temporary directory: exists or not, and the files in it
    runs,         \* history: how many times run() was called
    dpc,          \* position of download_and_run_pdbe_investigation
    csv_rows,     \* ExternalInformation: the data rows of the csv file named filename
    inchi_keys,   \* ExternalInformation.inchi_keys
    file_reads,   \* history: how many times the csv file was opened and read
    lookups,      \* history: how many times get_inchi_key was called
    returned      \* what the last get_inchi_key returned (NULL: None)

vars == <<pc, operations, loaded, idx, attempted, failures, log, data, mmcif_order, block, file, err, last,
          model_files, builder, rdata, rpc, table, warned, pass, prev,
          query_results, debug_log, denormalized_data, batch_size, batch_data, batches, bidx, bpc,
          pdb_ids, validated_pdb_ids, didx, downloaded_files, failed_downloads, requested, temp_dir,
          runs, dpc, csv_rows, inchi_keys, file_reads, lookups, returned>>

\* the variables of the reader side
rvars == <<model_files, builder, rdata, rpc, table, warned, pass, prev>>

\* the variables of the programs beside the engine and the reader
xvars == <<query_results, debug_log, denormalized_data, batch_size, batch_data, batches, bidx, bpc,
           pdb_ids, validated_pdb_ids, didx, downloaded_files, failed_downloads, requested, temp_dir,
           runs, dpc, csv_rows, inchi_keys, file_reads, lookups, returned>>

\* the variables of ExternalInformation
evars == <<csv_rows, inchi_keys, file_reads, lookups, returned>>

\* the variables of download_and_run_pdbe_investigation
dvars == <<pdb_ids, validated_pdb_ids, didx, downloaded_files, failed_downloads, requested, temp_dir,
           runs, dpc>>

\* the variables of process_entities_in_batches
bvars == <<denormalized_data, batch_size, batch_data, batches, bidx, bpc>>

----------------------------------------------------------------------------
(* Bounds and input alphabets *)

MaxOps == 2        \* longest operations list read from the configuration
MaxRows == 1       \* most values one operation yields for an item
MaxStore == 2      \* most values the store holds in the store-call specification

Categories == {"c1", "c2"}

----------------------------------------------------------------------------
(* Ordered dicts *)

Keys(d) == [j \in 1..Len(d) |-> d[j][1]]

KeySet(d) == {d[j][1] : j \in 1..Len(d)}

HasKey(d, k) == \E j \in 1..Len(d) : d[j][1] = k

IndexOf(d, k) == CHOOSE j \in 1..Len(d) : d[j][1] = k

Get(d, k) == d[IndexOf(d, k)][2]

\* d[k] = v: an existing key keeps its position, a new key goes last
Put(d, k, v) ==
    IF HasKey(d, k) THEN [d EXCEPT ![IndexOf(d, k)] = <<k, v>>]
    ELSE Append(d, <<k, v>>)

\* d.pop(k) for a key that is present
Remove(d, k) == SelectSeq(d, LAMBDA e : e[1] # k)

\* dict.update: every entry of other is put into d, in other's order
RECURSIVE dict_update(_, _)
dict_update(d, other) ==
    IF other = <<>> THEN d
    ELSE dict_update(Put(d, Head(other)[1], Head(other)[2]), Tail(other))

SeqsUpTo(S, n) == UNION {[1..m -> S] : m \in 0..n}

NoDup(s) == \A p, q \in 1..Len(s) : p # q => s[p] # s[q]

----------------------------------------------------------------------------
(* InvestigationStorage (src/investigation_io.py) *)

\* add_category: a category that is absent is created empty, and goes last
add_category(d, category_name) ==
    IF HasKey(d, category_name) THEN d ELSE Append(d, <<category_name, <<>>>>)

\* set_item: self.data[category_name][item_name] = item_value
set_item(d, category_name, item_name, item_value) ==
    LET d1 == add_category(d, category_name)
    IN  Put(d1, category_name, Put(Get(d1, category_name), item_name, item_value))

(* set_items(category_name, data).  The argument dict is a sequence of       *)
(* entries <<item, iterable, values>>; iterable = FALSE stands for a value  *)
(* Python cannot iterate (None, a number): `for value in values` raises     *)
(* TypeError there, after the entries before it were appended and after     *)
(* the item itself was created.                                             *)
RECURSIVE set_items_loop(_, _)
set_items_loop(items, entries) ==
    IF entries = <<>> THEN [items |-> items, raised |-> FALSE]
    ELSE LET item == Head(entries)[1]
             iterable == Head(entries)[2]
             values == Head(entries)[3]
             items1 == IF HasKey(items, item) THEN items ELSE Put(items, item, <<>>)
         IN  IF ~iterable THEN [items |-> items1, raised |-> TRUE]
             ELSE set_items_loop(Put(items1, item, Get(items1, item) \o values),
                                 Tail(entries))

\* set_items that assigns each item instead of extending it
set_items_assign(d, category_name, entries) ==
    LET d1 == add_category(d, category_name)
        r == [items |-> dict_update(Get(d1, category_name),
                                    [j \in 1..Len(entries) |-> <<entries[j][1], entries[j][3]>>]),
              raised |-> \E j \in 1..Len(entries) : ~entries[j][2]]
    IN  [data |-> Put(d1, category_name, r.items), raised |-> r.raised]

set_items(d, category_name, entries) ==
    LET d1 == add_category(d, category_name)
        r == set_items_loop(Get(d1, category_name), entries)
    IN  [data |-> Put(d1, category_name, r.items), raised |-> r.raised]

\* get_category_data: self.data[category], KeyError when absent
get_category_data(d, category) ==
    IF HasKey(d, category) THEN [raised |-> FALSE, ret |-> Get(d, category)]
    ELSE [raised |-> TRUE, ret |-> <<>>]

\* get_item_data: self.data[category][item], KeyError when either is absent
get_item_data(d, category, item) ==
    IF HasKey(d, category) /\ HasKey(Get(d, category), item)
    THEN [raised |-> FALSE, ret |-> Get(Get(d, category), item)]
    ELSE [raised |-> TRUE, ret |-> <<>>]

\* the loop of get_items_data: result[item] = self.data[category][item]; the category
\* is looked up for each item, so KeyError comes at the first item whose category or
\* item is absent, and never for an empty list of items
RECURSIVE get_items_loop(_, _, _, _)
get_items_loop(d, category, items, result) ==
    IF items = <<>> THEN [raised |-> FALSE, ret |-> result]
    ELSE IF HasKey(d, category) /\ HasKey(Get(d, category), Head(items))
    THEN get_items_loop(d, category, Tail(items),
                        Put(result, Head(items), Get(Get(d, category), Head(items))))
    ELSE [raised |-> TRUE, ret |-> <<>>]

\* get_items_data: a dict of the named items
get_items_data(d, category, items) == get_items_loop(d, category, items, <<>>)

\* get_data: the whole store
get_data(d) == d

\* get_item_order: self.mmcif_order.get(category, []); the order map is a dict
\* (order.isdict) or, when the configuration had no "mmcif_order", the list []
get_item_order(order, category) ==
    IF ~order.isdict THEN [raised |-> TRUE, ret |-> <<>>]
    ELSE IF category \in DOMAIN order.map THEN [raised |-> FALSE, ret |-> order.map[category]]
    ELSE [raised |-> FALSE, ret |-> <<>>]

SeqMax(s) == CHOOSE m \in {s[j] : j \in 1..Len(s)} : \A j \in 1..Len(s) : s[j] <= m

Lengths(items) == [j \in 1..Len(items) |-> Len(items[j][2])]

\* the (key, len(values)) pairs of one category that integrity_check collects
inconsistent_lists(items) ==
    LET max_length == SeqMax(Lengths(items))
        all == [j \in 1..Len(items) |-> <<items[j][1], Len(items[j][2])>>]
    IN  SelectSeq(all, LAMBDA e : e[2] # max_length)

(* integrity_check: max() of an empty sequence raises ValueError, so a      *)
(* category without items stops the check before anything is printed.  The  *)
(* method has no return statement: printed is what it prints, category by   *)
(* category.                                                                 *)
RECURSIVE integrity_loop(_, _)
integrity_loop(d, inconsistent_keys) ==
    IF d = <<>> THEN [raised |-> FALSE, printed |-> inconsistent_keys]
    ELSE LET dictionary_key == Head(d)[1]
             dictionary_values == Head(d)[2]
         IN  IF dictionary_values = <<>> THEN [raised |-> TRUE, printed |-> <<>>]
             ELSE LET bad == inconsistent_lists(dictionary_values)
                  IN  integrity_loop(Tail(d),
                                     IF bad # <<>>
                                     THEN Append(inconsistent_keys, <<dictionary_key, bad>>)
                                     ELSE inconsistent_keys)

integrity_check(d) == integrity_loop(d, <<>>)

\* the loop `ordered_category[ordered_item] = items.pop(ordered_item)`:
\* dict.pop raises KeyError at the first ordered item the category lacks
RECURSIVE pop_ordered(_, _, _)
pop_ordered(ordered_items, items, ordered_category) ==
    IF ordered_items = <<>>
    THEN [raised |-> FALSE, items |-> items, ordered_category |-> ordered_category]
    ELSE LET ordered_item == Head(ordered_items)
         IN  IF ~HasKey(items, ordered_item)
             THEN [raised |-> TRUE, items |-> items, ordered_category |-> ordered_category]
             ELSE pop_ordered(Tail(ordered_items), Remove(items, ordered_item),
                              Put(ordered_category, ordered_item, Get(items, ordered_item)))

\* the ordered_category write_data_to_cif hands to the writer for one category
order_category(ordered_items, items) ==
    LET p == pop_ordered(ordered_items, items, <<>>)
    IN  [raised |-> p.raised, items |-> p.items,
         ordered_category |-> IF p.raised THEN p.ordered_category
                              ELSE dict_update(p.ordered_category, p.items)]

Rectangular(items) ==
    \A p, q \in 1..Len(items) : Len(items[p][2]) = Len(items[q][2])

(* block.set_mmcif_category is gemmi's, not this repository's: whether it   *)
(* takes columns of unequal length is left open (strict = TRUE: it raises). *)
writer_accepts(ordered_category, strict) == ~strict \/ Rectangular(ordered_category)

(* write_data_to_cif: the loop over self.data.items().  items is the        *)
(* store's own dict, so every pop takes the item out of the store.  An      *)
(* exception leaves the loop with the block half filled and no file.        *)
RECURSIVE write_loop(_, _, _, _, _)
write_loop(j, d, blk, order, strict) ==
    IF j > Len(d) THEN [data |-> d, block |-> blk, err |-> "none"]
    ELSE LET category == d[j][1]
             o == get_item_order(order, category)
         IN  IF o.raised THEN [data |-> d, block |-> blk, err |-> "AttributeError"]
             ELSE LET oc == order_category(o.ret, d[j][2])
                      d1 == [d EXCEPT ![j] = <<category, oc.items>>]
                  IN  IF oc.raised THEN [data |-> d1, block |-> blk, err |-> "KeyError"]
                      ELSE IF ~writer_accepts(oc.ordered_category, strict)
                      THEN [data |-> d1, block |-> blk, err |-> "WriterError"]
                      ELSE write_loop(j + 1, d1, Put(blk, category, oc.ordered_category),
                                      order, strict)

write_data_to_cif(d, order, strict) ==
    LET r == write_loop(1, d, <<>>, order, strict)
    IN  [data |-> r.data, block |-> r.block, err |-> r.err,
         file |-> IF r.err = "none" THEN <<r.block>> ELSE <<>>]

----------------------------------------------------------------------------
(* InvestigationEngine (src/investigation_engine.py) *)

KnownKinds ==
    {"distinct_union", "intersection", "auto_increment", "static_value",
     "modify_intersection", "conditional_union", "copy", "copy_fill",
     "copy_conditional_modify", "copy_for_each_row", "external_information",
     "deletion", "conditional_distinct_union", "sql_query", "noop"}

\* operation_factory: an operation object for a known kind, ValueError otherwise
operation_factory(operation_type) ==
    [raised |-> operation_type \notin KnownKinds, kind |-> operation_type]

\* the column an operation computes: n values
Column(n) == [r \in 1..n |-> IF r % 2 = 1 THEN "x" ELSE "y"]

(* perform_operation (the operations module): the operation raises before   *)
(* it writes (fail = "before"), or hands set_items the n values it computed *)
(* for each target item; with fail = "partway" what it computed for the     *)
(* last target item cannot be iterated, and set_items raises there.         *)
perform_operation(d, operation_data, outcome) ==
    LET target == operation_data.target_items
        entries == [j \in 1..Len(target) |->
                       <<target[j], ~(outcome.fail = "partway" /\ j = Len(target)),
                         Column(outcome.n)>>]
    IN  IF outcome.fail = "before" THEN [data |-> d, raised |-> TRUE]
        ELSE set_items(d, operation_data.target_category, entries)

\* the body of run()'s for loop: try: factory, perform; except Exception: log
run_iteration(d, operation_data, outcome) ==
    LET f == operation_factory(operation_data.operation)
    IN  IF f.raised THEN [data |-> d, failed |-> TRUE, logged |-> <<operation_data>>]
        ELSE LET r == perform_operation(d, operation_data, outcome)
             IN  [data |-> r.data, failed |-> r.raised,
                  logged |-> IF r.raised THEN <<operation_data>> ELSE <<>>]

\* a loop that a failure ends: the try block around the loop, not inside it
next_position_abort(j, failed) == IF failed THEN j + MaxOps + 1 ELSE j + 1

\* a loop that passes over the descriptor after each one it attempts
next_position_skip(j, failed) == j + 2

\* the position run()'s for loop takes after the descriptor at position j
next_position(j, failed) == j + 1

----------------------------------------------------------------------------
(* Inputs *)

ConfigKinds == {"copy", "frobnicate"}

TargetLists == {<<"a">>, <<"b", "c">>}

Descriptors ==
    [operation : ConfigKinds, target_category : Categories, target_items : TargetLists]

OrderLists == {<<>>, <<"b">>, <<"c", "a">>}

\* the categories the configuration declares an order for; the others take
\* get_item_order's default
OrderedCategories == {"c1"}

NoOrder == [c \in OrderedCategories |-> <<>>]

\* the JSON configuration file: unreadable, or {"operations": [...]} with or
\* without an "mmcif_order" map
Configs ==
    [readable : {TRUE}, operations : SeqsUpTo(Descriptors, MaxOps),
     has_order : {TRUE}, mmcif_order : [OrderedCategories -> OrderLists]]
    \cup [readable : {TRUE}, operations : SeqsUpTo(Descriptors, MaxOps),
          has_order : {FALSE}, mmcif_order : {NoOrder}]
    \cup [readable : {FALSE}, operations : {<<>>}, has_order : {FALSE},
          mmcif_order : {NoOrder}]

Outcomes ==
    {o \in [fail : {"none", "before", "partway"}, n : 0..MaxRows] :
        o.fail = "before" => o.n = 0}

CallItems == {"a", "b"}

\* the value lists handed to set_item and set_items
ArgSeqs == {<<>>, <<"x">>, <<"y", "x">>}

\* argument dicts of set_items: distinct items, each with its values
CallEntries == {<<i, TRUE, v>> : i \in CallItems, v \in ArgSeqs}

CallDicts ==
    {e \in SeqsUpTo(CallEntries, Cardinality(CallItems)) : NoDup(Keys(e))}

RECURSIVE CategoryRows(_)
CategoryRows(items) ==
    IF items = <<>> THEN 0 ELSE Len(Head(items)[2]) + CategoryRows(Tail(items))

RECURSIVE StoreRows(_)
StoreRows(d) == IF d = <<>> THEN 0 ELSE CategoryRows(Head(d)[2]) + StoreRows(Tail(d))

----------------------------------------------------------------------------
(* Text.  A Python str whose characters matter is a sequence of one-character *)
(* strings, so that strip() is computed and not assumed.                      *)

RECURSIVE lstrip(_, _)
lstrip(s, chars) ==
    IF s # <<>> /\ Head(s) \in chars THEN lstrip(Tail(s), chars) ELSE s

RECURSIVE rstrip(_, _)
rstrip(s, chars) ==
    IF s # <<>> /\ s[Len(s)] \in chars THEN rstrip(SubSeq(s, 1, Len(s) - 1), chars) ELSE s

strip(s, chars) == rstrip(lstrip(s, chars), chars)

\* the characters str.strip() without argument removes
Whitespace == {" ", "\t", "\n", "\r"}

DigitChars == {"0", "1", "2", "3", "4", "5", "6", "7", "8", "9"}

LowerChars ==
    <<"a", "b", "c", "d", "e", "f", "g", "h", "i", "j", "k", "l", "m", "n", "o", "p", "q", "r",
      "s", "t", "u", "v", "w", "x", "y", "z">>

UpperChars ==
    <<"A", "B", "C", "D", "E", "F", "G", "H", "I", "J", "K", "L", "M", "N", "O", "P", "Q", "R",
      "S", "T", "U", "V", "W", "X", "Y", "Z">>

\* str.upper(): a lower-case letter becomes its capital, every other character stays
upper(text) ==
    [j \in 1..Len(text) |->
        IF \E k \in 1..Len(LowerChars) : LowerChars[k] = text[j]
        THEN UpperChars[CHOOSE k \in 1..Len(LowerChars) : LowerChars[k] = text[j]]
        ELSE text[j]]

\* str.replace(old, new) for a non-empty old: every occurrence, from the left,
\* without overlap
RECURSIVE replace(_, _, _)
replace(text, old, new) ==
    IF Len(text) < Len(old) THEN text
    ELSE IF SubSeq(text, 1, Len(old)) = old
    THEN new \o replace(SubSeq(text, Len(old) + 1, Len(text)), old, new)
    ELSE <<Head(text)>> \o replace(Tail(text), old, new)

\* InvestigationPdbe.clean_text_field
clean_text_field(text) ==
    IF text = <<>> THEN <<>>
    ELSE strip(strip(strip(strip(strip(text, {"'"}), {"\""}), {";"}), {"\n"}), Whitespace)

\* {name: i for i, name in enumerate(category.tags)}: the position of every column
\* the values of _entity.type the builders compare with (pdbe.py 538 and 552,
\* investigation_io.py 122 and 147), as the texts they are
Polymer == <<"p", "o", "l", "y", "m", "e", "r">>

NonPolymer == <<"n", "o", "n", "-", "p", "o", "l", "y", "m", "e", "r">>

Water == <<"w", "a", "t", "e", "r">>

\* a kind of _entity.type the builders do not name
Branched == <<"b", "r", "a", "n", "c", "h", "e", "d">>

columns_of(tags) == [j \in 1..Len(tags) |-> <<tags[j], j>>]

\* a row of a category as gemmi hands it out: the values in the order of the tags
row_values(row, tags) == [j \in 1..Len(tags) |-> row[tags[j]]]

\* InvestigationPdbe.safe_extract_field: default when the category has no such
\* column, when the row has no such position (IndexError), and when the value is ""
safe_extract_field(row, columns, field_name, default) ==
    IF ~HasKey(columns, field_name) THEN default
    ELSE IF Get(columns, field_name) > Len(row) THEN default
    ELSE LET value == row[Get(columns, field_name)]
         IN  IF value # <<>> THEN clean_text_field(value) ELSE default

\* seq_one_letter_code.strip(";").rstrip('\n'), the sequence as the row stores it
trimmed_sequence(seq_one_letter_code) == rstrip(strip(seq_one_letter_code, {";"}), {"\n"})

----------------------------------------------------------------------------
(* Datablocks.  gemmi's find_mmcif_category returns a Table, never None: a   *)
(* category the file lacks is a Table without rows (and without tags), and   *)
(* category[0] on it raises IndexError.  A Table is the sequence of its rows.*)

\* a variant that answers "" for a file without _database_2 instead of raising
database_code_lenient(datablock) ==
    [raised |-> FALSE, err |-> "none",
     pdb_id |-> IF datablock.database_2 = <<>> THEN <<>>
                ELSE IF "database_code" \in DOMAIN datablock.database_2[1]
                THEN datablock.database_2[1].database_code
                ELSE <<>>]

\* database_2_category[0][database_2_columns["_database_2.database_code"]]:
\* IndexError for a category without rows, KeyError for one without the column
database_code(datablock) ==
    IF datablock.database_2 = <<>> THEN [raised |-> TRUE, err |-> "IndexError", pdb_id |-> <<>>]
    ELSE IF "database_code" \notin DOMAIN datablock.database_2[1]
    THEN [raised |-> TRUE, err |-> "KeyError", pdb_id |-> <<>>]
    ELSE [raised |-> FALSE, err |-> "none", pdb_id |-> datablock.database_2[1].database_code]

\* CIFReader, lines 127-139: the loop over entity_poly_category keeps the sequence
\* and the type of the last row whose entity id equals the entity's
RECURSIVE scan_entity_poly(_, _, _)
scan_entity_poly(poly_rows, entity_id, found) ==
    IF poly_rows = <<>> THEN found
    ELSE scan_entity_poly(Tail(poly_rows), entity_id,
             IF Head(poly_rows).entity_id = entity_id
             THEN [seq_one_letter_code |-> Head(poly_rows).pdbx_seq_one_letter_code,
                   poly_type |-> Head(poly_rows).type]
             ELSE found)

\* CIFReader, lines 150-161: the same for entity_nonpoly_category and the component id
RECURSIVE scan_entity_nonpoly(_, _, _)
scan_entity_nonpoly(nonpoly_rows, entity_id, found) ==
    IF nonpoly_rows = <<>> THEN found
    ELSE scan_entity_nonpoly(Tail(nonpoly_rows), entity_id,
             IF Head(nonpoly_rows).entity_id = entity_id THEN Head(nonpoly_rows).comp_id
             ELSE found)

\* the tags of the categories, in the order of their columns
EntityTags == <<"id", "type">>

EntityPolyTags == <<"entity_id", "type", "pdbx_seq_one_letter_code">>

EntityNonpolyTags == <<"entity_id", "comp_id">>

\* the rows of a category as lists of values
table_rows(category, tags) == [j \in 1..Len(category) |-> row_values(category[j], tags)]

\* InvestigationPdbe.build_polymer_lookup: cleaned entity id -> cleaned fields; a row
\* whose cleaned entity id is empty is left out, a later row replaces an earlier one
RECURSIVE build_polymer_lookup(_, _, _)
build_polymer_lookup(entity_poly_category, poly_columns, polymer_lookup) ==
    IF entity_poly_category = <<>> THEN polymer_lookup
    ELSE LET poly_row == Head(entity_poly_category)
             entity_id == safe_extract_field(poly_row, poly_columns, "entity_id", <<>>)
         IN  build_polymer_lookup(Tail(entity_poly_category), poly_columns,
                 IF entity_id # <<>>
                 THEN Put(polymer_lookup, entity_id,
                          [seq_one_letter_code |->
                               safe_extract_field(poly_row, poly_columns,
                                                  "pdbx_seq_one_letter_code", <<>>),
                           poly_type |-> safe_extract_field(poly_row, poly_columns, "type", <<>>)])
                 ELSE polymer_lookup)

\* InvestigationPdbe.build_nonpoly_lookup
RECURSIVE build_nonpoly_lookup(_, _, _)
build_nonpoly_lookup(entity_nonpoly_category, nonpoly_columns, nonpoly_lookup) ==
    IF entity_nonpoly_category = <<>> THEN nonpoly_lookup
    ELSE LET nonpoly_row == Head(entity_nonpoly_category)
             entity_id == safe_extract_field(nonpoly_row, nonpoly_columns, "entity_id", <<>>)
         IN  build_nonpoly_lookup(Tail(entity_nonpoly_category), nonpoly_columns,
                 IF entity_id # <<>>
                 THEN Put(nonpoly_lookup, entity_id,
                          safe_extract_field(nonpoly_row, nonpoly_columns, "comp_id", <<>>))
                 ELSE nonpoly_lookup)

----------------------------------------------------------------------------
(* build_denormalised_data *)

\* a column no statement has set yet (SQL NULL); a set column is <<value>>
NULL == <<>>

\* the row build_denormalised_data inserts: the enrichment columns start as NULL.
\* ordinal is <<n>> (Python's "" would be <<>>)
NewRow(ordinal, pdb_id, file_name, entity_id, type, seq_one_letter_code, chem_comp_id, poly_type) ==
    [investigation_entity_id |-> ordinal, pdb_id |-> pdb_id, file_name |-> file_name,
     entity_id |-> entity_id, type |-> type,
     seq_one_letter_code |-> trimmed_sequence(seq_one_letter_code),
     chem_comp_id |-> chem_comp_id, poly_type |-> strip(poly_type, {"'"}),
     poly_descript |-> NULL, nonpoly_descript |-> NULL, sample_id |-> NULL,
     db_name |-> NULL, db_code |-> NULL, db_accession |-> NULL,
     synchrotron_site |-> NULL, exptl_method |-> NULL, campaign_id |-> NULL,
     investigation_id |-> NULL]

\* the locals of build_denormalised_data before the loop over the files; poly_type is
\* <<>> while the name is unbound (CIFReader binds it in the polymer branch only)
BuildStart ==
    [rows |-> <<>>, ordinals |-> <<>>, next_poly_ordinal |-> 1, next_nonpoly_ordinal |-> 1,
     poly_type |-> <<>>, warned |-> <<>>, raised |-> "none"]

\* ordinal = ordinals.get(key, False); if not ordinal: take the counter's next value.
\* One dict serves both kind classes.
assign_ordinal(ordinals, key, next_ordinal) ==
    IF HasKey(ordinals, key)
    THEN [ordinal |-> Get(ordinals, key), ordinals |-> ordinals, allocated |-> FALSE]
    ELSE [ordinal |-> next_ordinal, ordinals |-> Put(ordinals, key, next_ordinal),
          allocated |-> TRUE]

\* CIFReader.build_denormalised_data, the body of `for row in entity_category`
CIFReader_entity(st, file_name, pdb_id, datablock, row) ==
    IF row.type = Polymer
    THEN LET found == scan_entity_poly(datablock.entity_poly, row.id,
                          [seq_one_letter_code |-> <<>>, poly_type |-> <<>>])
             a == assign_ordinal(st.ordinals, found.seq_one_letter_code, st.next_poly_ordinal)
         IN  [st EXCEPT
                 !.ordinals = a.ordinals,
                 !.next_poly_ordinal = IF a.allocated THEN @ + 1 ELSE @,
                 !.poly_type = <<found.poly_type>>,
                 !.rows = Append(@, NewRow(<<a.ordinal>>, pdb_id, file_name, row.id, row.type,
                                           found.seq_one_letter_code, <<>>, found.poly_type))]
    ELSE IF row.type \in {Water, NonPolymer}
    THEN LET chem_comp_id == scan_entity_nonpoly(datablock.entity_nonpoly, row.id, <<>>)
             a == assign_ordinal(st.ordinals, chem_comp_id, st.next_nonpoly_ordinal)
         IN  IF st.poly_type = <<>>
             THEN [st EXCEPT !.raised = "UnboundLocalError"]
             ELSE [st EXCEPT
                      !.ordinals = a.ordinals,
                      !.next_nonpoly_ordinal = IF a.allocated THEN @ + 1 ELSE @,
                      !.rows = Append(@, NewRow(<<a.ordinal>>, pdb_id, file_name, row.id, row.type,
                                                <<>>, chem_comp_id, st.poly_type[1]))]
    ELSE \* another kind: ordinal, chem_comp_id and seq_one_letter_code keep their ""
         IF st.poly_type = <<>>
         THEN [st EXCEPT !.raised = "UnboundLocalError"]
         ELSE [st EXCEPT
                  !.rows = Append(@, NewRow(<<>>, pdb_id, file_name, row.id, row.type,
                                            <<>>, <<>>, st.poly_type[1]))]

RECURSIVE CIFReader_entities(_, _, _, _, _)
CIFReader_entities(st, file_name, pdb_id, datablock, entity_rows) ==
    IF entity_rows = <<>> \/ st.raised # "none" THEN st
    ELSE CIFReader_entities(CIFReader_entity(st, file_name, pdb_id, datablock, Head(entity_rows)),
                            file_name, pdb_id, datablock, Tail(entity_rows))

\* the loop over self.data.items(); a file without _database_2 raises IndexError
RECURSIVE CIFReader_files(_, _)
CIFReader_files(st, files) ==
    IF files = <<>> \/ st.raised # "none" THEN st
    ELSE LET file_name == Head(files)[1]
             datablock == Head(files)[2]
             code == database_code(datablock)
         IN  IF code.raised THEN [st EXCEPT !.raised = code.err]
             ELSE CIFReader_files(
                      CIFReader_entities(st, file_name, code.pdb_id, datablock, datablock.entity),
                      Tail(files))

\* CIFReader.build_denormalised_data: the rows are inserted after the loop, so an
\* exception in the loop leaves the table as it was
CIFReader_build_denormalised_data(files, rows_before) ==
    LET st == CIFReader_files(BuildStart, files)
    IN  [raised |-> st.raised, warned |-> st.warned,
         table |-> IF st.raised = "none" THEN rows_before \o st.rows ELSE rows_before]

\* InvestigationPdbe.build_denormalised_data, line 480-487: "" without _database_2,
\* and the file name without ".cif", in capitals, when the row has no database_code
pdbe_pdb_id(file_name, datablock) ==
    IF Len(datablock.database_2) > 0
    THEN IF "database_code" \in DOMAIN datablock.database_2[1]
         THEN datablock.database_2[1].database_code
         ELSE upper(replace(file_name, <<".", "c", "i", "f">>, <<>>))
    ELSE <<>>

\* lines 520-525: an entity without source identifier or entity identifier is skipped
valid_entity(pdb_id, entity_id) == pdb_id # <<>> /\ entity_id # <<>>

\* InvestigationPdbe.build_denormalised_data, the body of `for row in entity_category`
InvestigationPdbe_entity(st, file_name, pdb_id, polymer_lookup, nonpoly_lookup, row) ==
    LET entity_id == safe_extract_field(row_values(row, EntityTags), columns_of(EntityTags),
                                        "id", <<>>)
        entity_type == safe_extract_field(row_values(row, EntityTags), columns_of(EntityTags),
                                          "type", <<>>)
    IN  IF ~valid_entity(pdb_id, entity_id)
        THEN [st EXCEPT !.warned = Append(@, <<file_name, row.id>>)]
        ELSE IF entity_type = Polymer
        THEN LET found == IF HasKey(polymer_lookup, entity_id) THEN Get(polymer_lookup, entity_id)
                          ELSE [seq_one_letter_code |-> <<>>, poly_type |-> <<>>]
                 a == assign_ordinal(st.ordinals, found.seq_one_letter_code, st.next_poly_ordinal)
             IN  [st EXCEPT
                     !.ordinals = a.ordinals,
                     !.next_poly_ordinal = IF a.allocated THEN @ + 1 ELSE @,
                     !.rows = Append(@, NewRow(<<a.ordinal>>, pdb_id, file_name, entity_id, entity_type,
                                               found.seq_one_letter_code, <<>>, found.poly_type))]
        ELSE IF entity_type \in {Water, NonPolymer}
        THEN LET chem_comp_id == IF HasKey(nonpoly_lookup, entity_id)
                                 THEN Get(nonpoly_lookup, entity_id) ELSE <<>>
                 a == assign_ordinal(st.ordinals, chem_comp_id, st.next_nonpoly_ordinal)
             IN  [st EXCEPT
                     !.ordinals = a.ordinals,
                     !.next_nonpoly_ordinal = IF a.allocated THEN @ + 1 ELSE @,
                     !.rows = Append(@, NewRow(<<a.ordinal>>, pdb_id, file_name, entity_id, entity_type,
                                               <<>>, chem_comp_id, <<>>))]
        ELSE \* another kind: every kind-specific local keeps its ""
             [st EXCEPT
                 !.rows = Append(@, NewRow(<<>>, pdb_id, file_name, entity_id, entity_type,
                                           <<>>, <<>>, <<>>))]

RECURSIVE InvestigationPdbe_entities(_, _, _, _, _, _)
InvestigationPdbe_entities(st, file_name, pdb_id, polymer_lookup, nonpoly_lookup, entity_rows) ==
    IF entity_rows = <<>> THEN st
    ELSE InvestigationPdbe_entities(
             InvestigationPdbe_entity(st, file_name, pdb_id, polymer_lookup, nonpoly_lookup,
                                      Head(entity_rows)),
             file_name, pdb_id, polymer_lookup, nonpoly_lookup, Tail(entity_rows))

RECURSIVE InvestigationPdbe_files(_, _)
InvestigationPdbe_files(st, files) ==
    IF files = <<>> THEN st
    ELSE LET file_name == Head(files)[1]
             datablock == Head(files)[2]
         IN  InvestigationPdbe_files(
                 InvestigationPdbe_entities(st, file_name, pdbe_pdb_id(file_name, datablock),
                     build_polymer_lookup(table_rows(datablock.entity_poly, EntityPolyTags),
                                          columns_of(EntityPolyTags), <<>>),
                     build_nonpoly_lookup(table_rows(datablock.entity_nonpoly, EntityNonpolyTags),
                                          columns_of(EntityNonpolyTags), <<>>),
                     datablock.entity),
                 Tail(files))

\* InvestigationPdbe.build_denormalised_data.  The rows go to the table in batches of
\* config.batch_size, in the order they were built; nothing in the loop raises on the
\* datablocks of this model, so every batch is inserted.
InvestigationPdbe_build_denormalised_data(files, rows_before) ==
    LET st == InvestigationPdbe_files(BuildStart, files)
    IN  [raised |-> st.raised, warned |-> st.warned, table |-> rows_before \o st.rows]

----------------------------------------------------------------------------
(* The enrichment steps: SQL on the table denormalized_data *)

\* a variant without the DROP: the rows of an earlier pass stay
create_denormalised_tables_keep(rows_before) == rows_before

\* DROP TABLE IF EXISTS denormalized_data; CREATE TABLE denormalized_data (...)
create_denormalised_tables(rows_before) == <<>>

PolymerKinds == {Polymer}

NonPolymerKinds == {NonPolymer, Water}

\* ORDER BY investigation_entity_id on the ordinals of a group
RECURSIVE insert_sorted(_, _)
insert_sorted(sorted, n) ==
    IF sorted = <<>> THEN <<n>>
    ELSE IF n <= Head(sorted) THEN <<n>> \o sorted
    ELSE <<Head(sorted)>> \o insert_sorted(Tail(sorted), n)

RECURSIVE sort_ordinals(_)
sort_ordinals(s) ==
    IF s = <<>> THEN <<>> ELSE insert_sorted(sort_ordinals(Tail(s)), Head(s))

\* SELECT pdb_id, GROUP_CONCAT(investigation_entity_id) ... WHERE type in kinds ...
\* GROUP BY pdb_id, for one pdb_id: the ordinals of its rows of these kinds in ascending
\* order, every row counted.  The text "1,1,2" is held as <<1, 1, 2>>.
group_concat(rows, pdb_id, kinds) ==
    LET mine == SelectSeq(rows, LAMBDA r : r.pdb_id = pdb_id /\ r.type \in kinds)
    IN  sort_ordinals([j \in 1..Len(mine) |-> mine[j].investigation_entity_id[1]])

\* the pdb_ids the grouped query returns a row for
grouped_pdb_ids(rows, kinds) == {rows[j].pdb_id : j \in {k \in 1..Len(rows) : rows[k].type \in kinds}}

\* the order of two different GROUP_CONCAT texts under SQLite's BINARY collation; for
\* ordinals of one digit (the case within the bounds) it is the lexicographic order of
\* the ordinal lists, a proper prefix first
RECURSIVE text_less(_, _)
text_less(a, b) ==
    IF a = <<>> THEN b # <<>>
    ELSE IF b = <<>> THEN FALSE
    ELSE IF Head(a) # Head(b) THEN Head(a) < Head(b)
    ELSE text_less(Tail(a), Tail(b))

\* SELECT DISTINCT(set_of_x) ... GROUP BY set_of_x: the distinct texts in ascending order
RECURSIVE sort_texts(_)
sort_texts(S) ==
    IF S = {} THEN <<>>
    ELSE LET m == CHOOSE x \in S : \A y \in S \ {x} : text_less(x, y)
         IN  <<m>> \o sort_texts(S \ {m})

unique_sets(rows, kinds) ==
    sort_texts({group_concat(rows, p, kinds) : p \in grouped_pdb_ids(rows, kinds)})

\* for i, poly in enumerate(unique_poly): poly_descript[poly[0]] = i + 1
descript_id(unique, set_of) == CHOOSE i \in 1..Len(unique) : unique[i] = set_of

\* one half of add_descript_categories: UPDATE ... SET <field> = id WHERE pdb_id = ...
\* for every pdb_id the grouped query returned
descript(rows, kinds, field) ==
    LET unique == unique_sets(rows, kinds)
        grouped == grouped_pdb_ids(rows, kinds)
    IN  [j \in 1..Len(rows) |->
            IF rows[j].pdb_id \in grouped
            THEN [rows[j] EXCEPT
                     ![field] = <<descript_id(unique, group_concat(rows, rows[j].pdb_id, kinds))>>]
            ELSE rows[j]]

add_descript_categories(rows) ==
    descript(descript(rows, PolymerKinds, "poly_descript"), NonPolymerKinds, "nonpoly_descript")

\* the sort key of a descript column in GROUP BY: NULL comes before every number
null_first(column) == IF column = NULL THEN 0 ELSE column[1]

\* the order of two different (poly_descript, nonpoly_descript) groups
pair_less(a, b) ==
    \/ null_first(a[1]) < null_first(b[1])
    \/ null_first(a[1]) = null_first(b[1]) /\ null_first(a[2]) < null_first(b[2])

\* SELECT poly_descript, nonpoly_descript FROM denormalized_data GROUP BY both
RECURSIVE sort_pairs(_)
sort_pairs(S) ==
    IF S = {} THEN <<>>
    ELSE LET m == CHOOSE x \in S : \A y \in S \ {x} : pair_less(x, y)
         IN  <<m>> \o sort_pairs(S \ {m})

unique_samples(rows) ==
    sort_pairs({<<rows[j].poly_descript, rows[j].nonpoly_descript>> : j \in 1..Len(rows)})

\* WHERE poly_descript = "{sample[0]}" AND nonpoly_descript = "{sample[1]}": a NULL of
\* the sample is formatted as the text None, and a NULL column equals nothing, so the
\* statement matches only rows and samples with both columns set
sample_matches(row, sample) ==
    /\ sample[1] # NULL /\ sample[2] # NULL
    /\ row.poly_descript = sample[1] /\ row.nonpoly_descript = sample[2]

\* add_sample_category: UPDATE ... SET sample_id = index + 1 for every group in turn
RECURSIVE sample_updates(_, _, _)
sample_updates(rows, samples, index) ==
    IF index > Len(samples) THEN rows
    ELSE sample_updates(
             [j \in 1..Len(rows) |->
                 IF sample_matches(rows[j], samples[index])
                 THEN [rows[j] EXCEPT !.sample_id = <<index>>] ELSE rows[j]],
             samples, index + 1)

add_sample_category(rows) == sample_updates(rows, unique_samples(rows), 1)

\* a variant whose UPDATE has no WHERE clause: every row takes the last record
synchrotron_updates_everywhere(rows, synchrotron_data) ==
    IF synchrotron_data = <<>> THEN rows
    ELSE LET rec == synchrotron_data[Len(synchrotron_data)]
         IN  [j \in 1..Len(rows) |->
                 [rows[j] EXCEPT !.synchrotron_site = <<rec.synchrotron_site>>,
                                 !.campaign_id = <<rec.campaign_id>>]]

\* UPDATE denormalized_data SET ... WHERE pdb_id = "{row['pdb_id']}", one statement
\* per collected record, in the order collected
RECURSIVE synchrotron_updates(_, _)
synchrotron_updates(rows, synchrotron_data) ==
    IF synchrotron_data = <<>> THEN rows
    ELSE LET rec == Head(synchrotron_data)
         IN  synchrotron_updates(
                 [j \in 1..Len(rows) |->
                     IF rows[j].pdb_id = rec.pdb_id
                     THEN [rows[j] EXCEPT !.synchrotron_site = <<rec.synchrotron_site>>,
                                          !.campaign_id = <<rec.campaign_id>>]
                     ELSE rows[j]],
                 Tail(synchrotron_data))

\* a variant that gives every site the id 1
allocate_campaign_one(st, synchrotron_site) ==
    [st EXCEPT !.campaigns = Put(@, synchrotron_site, 1)]

\* if synchrotron_site not in campaigns:
\*     campaigns[synchrotron_site] = next_ordinal; next_ordinal = next_ordinal + 1
allocate_campaign(st, synchrotron_site) ==
    IF HasKey(st.campaigns, synchrotron_site) THEN st
    ELSE [st EXCEPT !.campaigns = Put(@, synchrotron_site, st.next_ordinal),
                    !.next_ordinal = @ + 1]

\* the loop over the rows of one file's _diffrn_source
RECURSIVE synchrotron_rows(_, _, _)
synchrotron_rows(st, pdb_id, diffrn_rows) ==
    IF diffrn_rows = <<>> THEN st
    ELSE LET site == Head(diffrn_rows).pdbx_synchrotron_site
             st1 == allocate_campaign(st, site)
         IN  synchrotron_rows(
                 [st1 EXCEPT !.synchrotron_data = Append(@, [pdb_id |-> pdb_id,
                                 synchrotron_site |-> site,
                                 campaign_id |-> Get(st1.campaigns, site)])],
                 pdb_id, Tail(diffrn_rows))

\* the loop over self.data.items(): a file without _database_2 raises IndexError, a
\* file without _diffrn_source has no rows to loop over
RECURSIVE synchrotron_files(_, _)
synchrotron_files(st, files) ==
    IF files = <<>> \/ st.raised # "none" THEN st
    ELSE LET datablock == Head(files)[2]
             code == database_code(datablock)
         IN  IF code.raised THEN [st EXCEPT !.raised = code.err]
             ELSE synchrotron_files(synchrotron_rows(st, code.pdb_id, datablock.diffrn_source),
                                    Tail(files))

add_synchrotron_data(files, rows) ==
    LET st == synchrotron_files([campaigns |-> <<>>, next_ordinal |-> 1, synchrotron_data |-> <<>>,
                                 raised |-> "none"],
                                files)
    IN  [raised |-> st.raised, campaigns |-> st.campaigns,
         table |-> IF st.raised = "none" THEN synchrotron_updates(rows, st.synchrotron_data)
                   ELSE rows]

\* the loop of add_struct_ref_data / add_exptl_data over self.data.items(): collect the
\* rows of one category with the file's pdb_id; a file without _database_2 raises
RECURSIVE collect_rows(_, _, _)
collect_rows(st, files, category) ==
    IF files = <<>> \/ st.raised # "none" THEN st
    ELSE LET datablock == Head(files)[2]
             code == database_code(datablock)
         IN  IF code.raised THEN [st EXCEPT !.raised = code.err]
             ELSE collect_rows(
                      [st EXCEPT !.collected = @ \o
                          [j \in 1..Len(datablock[category]) |->
                              [pdb_id |-> code.pdb_id, row |-> datablock[category][j]]]],
                      Tail(files), category)

\* a variant of the updates whose WHERE clause does not look at the type
RECURSIVE struct_ref_updates_any_type(_, _)
struct_ref_updates_any_type(rows, struct_ref) ==
    IF struct_ref = <<>> THEN rows
    ELSE LET rec == Head(struct_ref)
         IN  struct_ref_updates_any_type(
                 [j \in 1..Len(rows) |->
                     IF /\ rows[j].pdb_id = rec.pdb_id
                        /\ rows[j].entity_id = rec.row.entity_id
                     THEN [rows[j] EXCEPT !.db_name = <<rec.row.db_name>>,
                                          !.db_code = <<rec.row.db_code>>,
                                          !.db_accession = <<rec.row.pdbx_db_accession>>]
                     ELSE rows[j]],
                 Tail(struct_ref))

\* UPDATE ... SET db_name, db_code, db_accession WHERE pdb_id = ... AND entity_id = ...
\* AND type = "polymer"
RECURSIVE struct_ref_updates(_, _)
struct_ref_updates(rows, struct_ref) ==
    IF struct_ref = <<>> THEN rows
    ELSE LET rec == Head(struct_ref)
         IN  struct_ref_updates(
                 [j \in 1..Len(rows) |->
                     IF /\ rows[j].pdb_id = rec.pdb_id
                        /\ rows[j].entity_id = rec.row.entity_id
                        /\ rows[j].type = Polymer
                     THEN [rows[j] EXCEPT !.db_name = <<rec.row.db_name>>,
                                          !.db_code = <<rec.row.db_code>>,
                                          !.db_accession = <<rec.row.pdbx_db_accession>>]
                     ELSE rows[j]],
                 Tail(struct_ref))

add_struct_ref_data(files, rows) ==
    LET st == collect_rows([collected |-> <<>>, raised |-> "none"], files, "struct_ref")
    IN  [raised |-> st.raised,
         table |-> IF st.raised = "none" THEN struct_ref_updates(rows, st.collected) ELSE rows]

\* UPDATE ... SET exptl_method = ... WHERE pdb_id = ...
RECURSIVE exptl_updates(_, _)
exptl_updates(rows, exptl_data) ==
    IF exptl_data = <<>> THEN rows
    ELSE LET rec == Head(exptl_data)
         IN  exptl_updates(
                 [j \in 1..Len(rows) |->
                     IF rows[j].pdb_id = rec.pdb_id
                     THEN [rows[j] EXCEPT !.exptl_method = <<strip(rec.row.method, {"'"})>>]
                     ELSE rows[j]],
                 Tail(exptl_data))

add_exptl_data(files, rows) ==
    LET st == collect_rows([collected |-> <<>>, raised |-> "none"], files, "exptl")
    IN  [raised |-> st.raised,
         table |-> IF st.raised = "none" THEN exptl_updates(rows, st.collected) ELSE rows]

\* UPDATE denormalized_data SET investigation_id = "{investigation_id}"
add_investigation_id(rows, investigation_id) ==
    [j \in 1..Len(rows) |-> [rows[j] EXCEPT !.investigation_id = <<investigation_id>>]]

----------------------------------------------------------------------------
(* pre_run: the inputs *)

MaxSources == 2     \* most model files of one investigation
MaxEntities == 2    \* most rows of one file's _entity category
MaxPasses == 2      \* how often pre_run runs on the same files

Builders == {"CIFReader", "InvestigationPdbe"}

\* _entity_poly.type of every polymer of the inputs
PolyType == <<"L">>

\* what one row of _entity stands for: its kind, whether its id is the empty string
\* '' of mmCIF, and the raw value of its row in the side category (_entity_poly's
\* sequence or _pdbx_entity_nonpoly's component id), <<>> when it has no such row.
\* <<";", "A", "\n", ";">> is the sequence A written as an mmCIF text field.
EntitySpecs ==
    {[type |-> Polymer, blank_id |-> FALSE, side |-> << <<"A">> >>],
     [type |-> Polymer, blank_id |-> FALSE, side |-> << <<";", "A", "\n", ";">> >>],
     [type |-> Polymer, blank_id |-> FALSE, side |-> <<>>],
     [type |-> Polymer, blank_id |-> TRUE, side |-> << <<"A">> >>],
     [type |-> NonPolymer, blank_id |-> FALSE, side |-> << <<"H">> >>],
     [type |-> Water, blank_id |-> FALSE, side |-> <<>>]}

EntityLists == SeqsUpTo(EntitySpecs, MaxEntities)

\* the categories a file has besides its entities: with or without _database_2, and
\* the rows of _diffrn_source (none: the file lacks the category)
SourceMetas ==
    {[database_2 |-> TRUE, sites |-> <<>>], [database_2 |-> TRUE, sites |-> <<"X">>],
     [database_2 |-> TRUE, sites |-> <<"Y">>], [database_2 |-> FALSE, sites |-> <<"X">>]}

Digits == <<"1", "2", "3", "4">>

EntityId(specs, j) == IF specs[j].blank_id THEN <<"'", "'">> ELSE <<Digits[j]>>

\* the positions of the entities of these kinds that have a row in the side category
SidePositions(specs, kinds) ==
    SelectSeq([j \in 1..Len(specs) |-> j],
              LAMBDA j : clean_text_field(specs[j].type) \in kinds /\ specs[j].side # <<>>)

\* the datablock of the i-th file
Datablock(i, specs, meta) ==
    [database_2 |-> IF meta.database_2 THEN <<[database_code |-> <<"P", Digits[i]>>]>> ELSE <<>>,
     entity |-> [j \in 1..Len(specs) |-> [id |-> EntityId(specs, j), type |-> specs[j].type]],
     entity_poly |->
         LET at == SidePositions(specs, PolymerKinds)
         IN  [k \in 1..Len(at) |->
                 [entity_id |-> EntityId(specs, at[k]), type |-> PolyType,
                  pdbx_seq_one_letter_code |-> specs[at[k]].side[1]]],
     entity_nonpoly |->
         LET at == SidePositions(specs, NonPolymerKinds)
         IN  [k \in 1..Len(at) |->
                 [entity_id |-> EntityId(specs, at[k]), comp_id |-> specs[at[k]].side[1]]],
     diffrn_source |-> [k \in 1..Len(meta.sites) |-> [pdbx_synchrotron_site |-> meta.sites[k]]],
     struct_ref |-> <<>>,
     exptl |-> <<[method |-> <<"'", "X", "'">>]>>]

\* what the files of one investigation hold
SourceSpecs == [specs : EntityLists, meta : SourceMetas]

\* the model files of one investigation, as read_files will key them
ModelFiles(sources) ==
    [i \in 1..Len(sources) |->
        <<<<"f", Digits[i], ".", "c", "i", "f">>,
          Datablock(i, sources[i].specs, sources[i].meta)>>]

\* the configuration of the pre_run specification: no operations, no declared order
PreConfigs ==
    {c \in Configs : c.readable /\ c.operations = <<>> /\ c.has_order /\ c.mmcif_order = NoOrder}

InvestigationId == "I_1"

----------------------------------------------------------------------------
(* State machine *)

NoCall == [op |-> "none", cat |-> "", entries |-> <<>>, raised |-> FALSE, ret |-> <<>>]

\* the programs beside the engine and the reader have not run
DebuggerIdle ==
    /\ query_results = <<>>
    /\ debug_log = <<>>

BatchesIdle ==
    /\ denormalized_data = <<>>
    /\ batch_size = 1
    /\ batch_data = <<>>
    /\ batches = <<>>
    /\ bidx = 1
    /\ bpc = "idle"

NoTempDir == [exists |-> FALSE, files |-> {}]

DownloadIdle ==
    /\ pdb_ids = <<>>
    /\ validated_pdb_ids = <<>>
    /\ didx = 1
    /\ downloaded_files = <<>>
    /\ failed_downloads = <<>>
    /\ requested = <<>>
    /\ temp_dir = NoTempDir
    /\ runs = 0
    /\ dpc = "idle"

\* no ExternalInformation object is in use
ExternalIdle ==
    /\ csv_rows = <<>>
    /\ inchi_keys = <<>>
    /\ file_reads = 0
    /\ lookups = 0
    /\ returned = <<>>

NotStarted ==
    /\ DebuggerIdle
    /\ BatchesIdle
    /\ DownloadIdle
    /\ ExternalIdle

\* the engine as its constructor leaves it
EngineConstructed ==
    /\ pc = "constructed"
    /\ operations = <<>>
    /\ loaded = <<>>
    /\ idx = 1
    /\ attempted = <<>>
    /\ failures = <<>>
    /\ log = <<>>
    /\ data = <<>>
    /\ mmcif_order = [isdict |-> TRUE, map |-> <<>>]
    /\ block = <<>>
    /\ file = <<>>
    /\ err = "none"
    /\ last = NoCall

\* no pre_run has started
ReaderIdle ==
    /\ model_files = <<>>
    /\ builder = "none"
    /\ rdata = <<>>
    /\ rpc = "idle"
    /\ table = <<>>
    /\ warned = <<>>
    /\ pass = 0
    /\ prev = <<>>

\* InvestigationEngine.__init__ and InvestigationStorage.__init__
Init ==
    /\ pc = "constructed"
    /\ operations = <<>>
    /\ loaded = <<>>
    /\ idx = 1
    /\ attempted = <<>>
    /\ failures = <<>>
    /\ log = <<>>
    /\ data = <<>>
    /\ mmcif_order = [isdict |-> TRUE, map |-> <<>>]
    /\ block = <<>>
    /\ file = <<>>
    /\ err = "none"
    /\ last = NoCall
    /\ model_files = <<>>
    /\ builder = "none"
    /\ rdata = <<>>
    /\ rpc = "idle"
    /\ table = <<>>
    /\ warned = <<>>
    /\ pass = 0
    /\ prev = <<>>
    /\ NotStarted

\* read_json_operations, the last step of pre_run
ReadJsonOperations(json_data) ==
    /\ pc = "constructed"
    /\ IF json_data.readable
       THEN /\ pc' = "ready"
            /\ operations' = json_data.operations
            /\ loaded' = json_data.operations
            /\ mmcif_order' = IF json_data.has_order
                              THEN [isdict |-> TRUE, map |-> json_data.mmcif_order]
                              ELSE [isdict |-> FALSE, map |-> <<>>]
            /\ err' = err
       ELSE /\ pc' = "aborted"
            /\ err' = "OSError"
            /\ UNCHANGED <<operations, loaded, mmcif_order>>
    /\ UNCHANGED <<idx, attempted, failures, log, data, block, file, last>>

\* one pass of run()'s for loop
RunStep(outcome) ==
    /\ pc = "ready"
    /\ idx <= Len(operations)
    /\ LET r == run_iteration(data, operations[idx], outcome)
       IN  /\ data' = r.data
           /\ log' = log \o r.logged
           /\ idx' = next_position(idx, r.failed)
           /\ failures' = Append(failures, r.failed)
    /\ attempted' = Append(attempted, idx)
    /\ UNCHANGED <<pc, operations, loaded, mmcif_order, block, file, err, last>>
    /\ UNCHANGED <<rvars, xvars>>

\* a variant of the end of run() that does not wait for the loop to end
Serialise_early(strict) ==
    /\ pc = "ready"
    /\ LET w == write_data_to_cif(data, mmcif_order, strict)
       IN  /\ data' = w.data
           /\ block' = w.block
           /\ file' = w.file
           /\ err' = w.err
           /\ pc' = IF w.err = "none" THEN "done" ELSE "crashed"
    /\ UNCHANGED <<operations, loaded, idx, attempted, failures, log, mmcif_order, last>>
    /\ UNCHANGED <<rvars, xvars>>

\* the end of run(): write_data_to_cif
Serialise(strict) ==
    /\ pc = "ready"
    /\ idx > Len(operations)
    /\ LET w == write_data_to_cif(data, mmcif_order, strict)
       IN  /\ data' = w.data
           /\ block' = w.block
           /\ file' = w.file
           /\ err' = w.err
           /\ pc' = IF w.err = "none" THEN "done" ELSE "crashed"
    /\ UNCHANGED <<operations, loaded, idx, attempted, failures, log, mmcif_order, last>>
    /\ UNCHANGED <<rvars, xvars>>

Next ==
    \/ pc = "constructed" /\ \E json_data \in Configs : ReadJsonOperations(json_data) /\ UNCHANGED <<rvars, xvars>>
    \/ pc = "ready" /\ \E outcome \in Outcomes : RunStep(outcome)
    \/ pc = "ready" /\ \E strict \in BOOLEAN : Serialise(strict)

Spec == Init /\ [][Next]_vars

----------------------------------------------------------------------------
(* Direct calls of the store API, in any order *)

EngineIdle ==
    /\ UNCHANGED <<pc, operations, loaded, idx, attempted, failures, log, mmcif_order, err>>
    /\ UNCHANGED <<rvars, xvars>>

AddCategory(c) ==
    /\ data' = add_category(data, c)
    /\ last' = [op |-> "add_category", cat |-> c, entries |-> <<>>, raised |-> FALSE,
                ret |-> <<>>]
    /\ UNCHANGED <<block, file>>
    /\ EngineIdle

SetItem(c, i, v) ==
    /\ StoreRows(set_item(data, c, i, v)) <= MaxStore
    /\ data' = set_item(data, c, i, v)
    /\ last' = [op |-> "set_item", cat |-> c, entries |-> <<<<i, TRUE, v>>>>,
                raised |-> FALSE, ret |-> <<>>]
    /\ UNCHANGED <<block, file>>
    /\ EngineIdle

SetItems(c, entries) ==
    LET r == set_items(data, c, entries)
    IN  /\ StoreRows(r.data) <= MaxStore
        /\ data' = r.data
        /\ last' = [op |-> "set_items", cat |-> c, entries |-> entries,
                    raised |-> r.raised, ret |-> <<>>]
        /\ UNCHANGED <<block, file>>
        /\ EngineIdle

GetCategoryData(c) ==
    /\ last' = [op |-> "get_category_data", cat |-> "", entries |-> <<>>,
                raised |-> get_category_data(data, c).raised,
                ret |-> <<>>]
    /\ UNCHANGED <<data, block, file>>
    /\ EngineIdle

GetItemData(c, i) ==
    /\ last' = [op |-> "get_item_data", cat |-> "", entries |-> <<>>,
                raised |-> get_item_data(data, c, i).raised,
                ret |-> <<>>]
    /\ UNCHANGED <<data, block, file>>
    /\ EngineIdle

\* the lists of items get_items_data is called with
ItemLists == {<<>>, <<"a">>, <<"b", "a">>, <<"a", "a">>}

GetItemsData(c, items) ==
    /\ last' = [op |-> "get_items_data", cat |-> "", entries |-> <<>>,
                raised |-> get_items_data(data, c, items).raised,
                ret |-> <<>>]
    /\ UNCHANGED <<data, block, file>>
    /\ EngineIdle

GetData ==
    /\ last' = [op |-> "get_data", cat |-> "", entries |-> <<>>, raised |-> FALSE,
                ret |-> <<>>]
    /\ UNCHANGED <<data, block, file>>
    /\ EngineIdle

IntegrityCheck ==
    /\ last' = [op |-> "integrity_check", cat |-> "", entries |-> <<>>,
                raised |-> integrity_check(data).raised,
                ret |-> integrity_check(data).printed]
    /\ UNCHANGED <<data, block, file>>
    /\ EngineIdle

WriteDataToCif(strict) ==
    LET w == write_data_to_cif(data, mmcif_order, strict)
    IN  /\ data' = w.data
        /\ last' = [op |-> "write_data_to_cif", cat |-> "", entries |-> <<>>,
                    raised |-> w.err # "none", ret |-> w.file]
        /\ UNCHANGED <<block, file>>
        /\ EngineIdle

NextStore ==
    \/ \E c \in Categories : AddCategory(c)
    \/ \E c \in Categories, i \in CallItems, v \in ArgSeqs : SetItem(c, i, v)
    \/ \E c \in Categories, entries \in CallDicts : SetItems(c, entries)
    \/ \E c \in Categories : GetCategoryData(c)
    \/ \E c \in Categories, i \in CallItems : GetItemData(c, i)
    \/ \E c \in Categories, items \in ItemLists : GetItemsData(c, items)
    \/ GetData
    \/ IntegrityCheck
    \/ \E strict \in BOOLEAN : WriteDataToCif(strict)

SpecStore == Init /\ [][NextStore]_vars

----------------------------------------------------------------------------
(* pre_run: the state machine.  One action per call pre_run makes; a call    *)
(* that raises leaves pre_run (rpc = "raised") and nothing after it runs.    *)

\* the constructor, for every builder and every set of model files
InitPre ==
    /\ pc = "constructed"
    /\ operations = <<>>
    /\ loaded = <<>>
    /\ idx = 1
    /\ attempted = <<>>
    /\ failures = <<>>
    /\ log = <<>>
    /\ data = <<>>
    /\ mmcif_order = [isdict |-> TRUE, map |-> <<>>]
    /\ block = <<>>
    /\ file = <<>>
    /\ err = "none"
    /\ last = NoCall
    /\ builder \in Builders
    /\ \E n \in 1..MaxSources : \E sources \in [1..n -> SourceSpecs] :
           model_files = ModelFiles(sources)
    /\ rdata = <<>>
    /\ rpc = "new"
    /\ table = <<>>
    /\ warned = <<>>
    /\ pass = 0
    /\ prev = <<>>
    /\ NotStarted

EngineWaits ==
    UNCHANGED <<pc, operations, loaded, idx, attempted, failures, log, data, mmcif_order, block,
                file, last, xvars>>

\* the outcome of a step of pre_run that may raise
StepOutcome(raised, step) ==
    /\ rpc' = IF raised = "none" THEN step ELSE "raised"
    /\ err' = IF raised = "none" THEN err ELSE raised

\* InvestigationPdbe.validate_inputs: there are model files, every path exists
\* (found[j] for the j-th path) and the operation file exists
validate_inputs(model_file_path, found, operation_file_found) ==
    /\ model_file_path # <<>>
    /\ \A j \in 1..Len(model_file_path) : found[j]
    /\ operation_file_found

\* CIFReader.read_files: the loop over file_paths.  gemmi.cif.read_file raises on a
\* path that does not exist (found[j] is FALSE), after the files before it were
\* stored: self.data[file_name] = the file's block
RECURSIVE read_files_loop(_, _, _, _)
read_files_loop(d, files, found, j) ==
    IF j > Len(files) THEN [data |-> d, raised |-> "none"]
    ELSE IF ~found[j] THEN [data |-> d, raised |-> "FileNotFoundError"]
    ELSE read_files_loop(Put(d, files[j][1], files[j][2]), files, found, j + 1)

read_files(d, files, found) == read_files_loop(d, files, found, 1)

\* The start of pre_run.  InvestigationPdbe.pre_run first validates its inputs and
\* raises ValueError when the validation fails; then, for both builders,
\* reader.read_files(model_file_path), with no check before it for the CIFReader
\* builder.  The pre_run of src/facilities/pdbe.py makes the calls of the CIFReader
\* builder and then super().pre_run(), which makes them again on the same reader: a
\* second pass, for the CIFReader builder only.
ReadFiles(found, operation_file_found) ==
    /\ rpc = "new" \/ (rpc = "stamped" /\ builder = "CIFReader")
    /\ pass < MaxPasses
    /\ IF /\ builder = "InvestigationPdbe"
          /\ ~validate_inputs(Keys(model_files), found, operation_file_found)
       THEN rdata' = rdata /\ StepOutcome("ValueError", "read")
       ELSE LET r == read_files(rdata, model_files, found)
            IN  rdata' = r.data /\ StepOutcome(r.raised, "read")
    /\ pass' = pass + 1
    /\ prev' = table
    /\ UNCHANGED <<builder, model_files, table, warned>>
    /\ EngineWaits

\* read_files with every outcome of the look at the file system
StartPreRun ==
    \E found \in [1..Len(model_files) -> BOOLEAN], operation_file_found \in BOOLEAN :
        ReadFiles(found, operation_file_found)

CreateDenormalisedTables ==
    /\ rpc = "read"
    /\ table' = create_denormalised_tables(table)
    /\ rpc' = "created"
    /\ UNCHANGED <<builder, model_files, rdata, warned, pass, prev, err>>
    /\ EngineWaits

BuildDenormalisedData ==
    /\ rpc = "created"
    /\ LET b == IF builder = "CIFReader" THEN CIFReader_build_denormalised_data(rdata, table)
                ELSE InvestigationPdbe_build_denormalised_data(rdata, table)
       IN  /\ table' = b.table
           /\ warned' = b.warned
           /\ StepOutcome(b.raised, "built")
    /\ UNCHANGED <<builder, model_files, rdata, pass, prev>>
    /\ EngineWaits

AddStructRefData ==
    /\ rpc = "built"
    /\ LET r == add_struct_ref_data(rdata, table)
       IN  table' = r.table /\ StepOutcome(r.raised, "struct_ref")
    /\ UNCHANGED <<builder, model_files, rdata, warned, pass, prev>>
    /\ EngineWaits

AddDescriptCategories ==
    /\ rpc = "struct_ref"
    /\ table' = add_descript_categories(table)
    /\ rpc' = "descript"
    /\ UNCHANGED <<builder, model_files, rdata, warned, pass, prev, err>>
    /\ EngineWaits

AddSampleCategory ==
    /\ rpc = "descript"
    /\ table' = add_sample_category(table)
    /\ rpc' = "sample"
    /\ UNCHANGED <<builder, model_files, rdata, warned, pass, prev, err>>
    /\ EngineWaits

AddSynchrotronData ==
    /\ rpc = "sample"
    /\ LET r == add_synchrotron_data(rdata, table)
       IN  table' = r.table /\ StepOutcome(r.raised, "synchrotron")
    /\ UNCHANGED <<builder, model_files, rdata, warned, pass, prev>>
    /\ EngineWaits

AddExptlData ==
    /\ rpc = "synchrotron"
    /\ LET r == add_exptl_data(rdata, table)
       IN  table' = r.table /\ StepOutcome(r.raised, "exptl")
    /\ UNCHANGED <<builder, model_files, rdata, warned, pass, prev>>
    /\ EngineWaits

AddInvestigationId ==
    /\ rpc = "exptl"
    /\ table' = add_investigation_id(table, InvestigationId)
    /\ rpc' = "stamped"
    /\ UNCHANGED <<builder, model_files, rdata, warned, pass, prev, err>>
    /\ EngineWaits

\* the last call of pre_run: read_json_operations
PreRunReadJson(json_data) ==
    /\ rpc = "stamped"
    /\ ReadJsonOperations(json_data)
    /\ rpc' = "prepared"
    /\ UNCHANGED <<builder, model_files, rdata, table, warned, pass, prev, xvars>>

\* run() after pre_run returned: the callers run im.pre_run(); im.run()
RunAfterPreRun(strict) ==
    /\ rpc = "prepared"
    /\ Serialise(strict)

NextPre ==
    \/ rpc \in {"new", "stamped"} /\ StartPreRun
    \/ CreateDenormalisedTables
    \/ BuildDenormalisedData
    \/ AddStructRefData
    \/ AddDescriptCategories
    \/ AddSampleCategory
    \/ AddSynchrotronData
    \/ AddExptlData
    \/ AddInvestigationId
    \/ rpc = "stamped" /\ \E json_data \in PreConfigs : PreRunReadJson(json_data)
    \/ rpc = "prepared" /\ \E strict \in BOOLEAN : RunAfterPreRun(strict)

SpecPre == InitPre /\ [][NextPre]_vars

----------------------------------------------------------------------------
(* pre_run up to build_denormalised_data, on files whose entities are of any *)
(* kind of _entity.type.                                                     *)

\* the entities of the files of this specification: the three kinds the builders
\* name, bare and written as the quoted strings 'polymer' and "non-polymer", and
\* "branched", a kind of _entity.type they do not name
KindSpecs ==
    {[type |-> Polymer, blank_id |-> FALSE, side |-> << <<"A">> >>],
     [type |-> <<"'">> \o Polymer \o <<"'">>, blank_id |-> FALSE, side |-> << <<"A">> >>],
     [type |-> NonPolymer, blank_id |-> FALSE, side |-> << <<"H">> >>],
     [type |-> <<"\"">> \o NonPolymer \o <<"\"">>, blank_id |-> FALSE, side |-> << <<"H">> >>],
     [type |-> Water, blank_id |-> FALSE, side |-> <<>>],
     [type |-> Branched, blank_id |-> FALSE, side |-> <<>>]}

KindSourceSpecs ==
    [specs : SeqsUpTo(KindSpecs, MaxEntities), meta : {[database_2 |-> TRUE, sites |-> <<>>]}]

\* the files, those that are flagged with a _database_2 row that has the column
\* database_id and no column database_code
WithoutCodeColumn(files, flags) ==
    [i \in 1..Len(files) |->
        <<files[i][1],
          IF flags[i] THEN [files[i][2] EXCEPT !.database_2 = <<[database_id |-> <<"P", "D", "B">>]>>]
          ELSE files[i][2]>>]

InitBuild ==
    /\ pc = "constructed"
    /\ operations = <<>>
    /\ loaded = <<>>
    /\ idx = 1
    /\ attempted = <<>>
    /\ failures = <<>>
    /\ log = <<>>
    /\ data = <<>>
    /\ mmcif_order = [isdict |-> TRUE, map |-> <<>>]
    /\ block = <<>>
    /\ file = <<>>
    /\ err = "none"
    /\ last = NoCall
    /\ builder \in Builders
    /\ \E n \in 1..MaxSources :
           \E sources \in [1..n -> KindSourceSpecs], flags \in [1..n -> BOOLEAN] :
               model_files = WithoutCodeColumn(ModelFiles(sources), flags)
    /\ rdata = <<>>
    /\ rpc = "new"
    /\ table = <<>>
    /\ warned = <<>>
    /\ pass = 0
    /\ prev = <<>>
    /\ NotStarted

NextBuild ==
    \/ rpc \in {"new", "stamped"} /\ StartPreRun
    \/ CreateDenormalisedTables
    \/ BuildDenormalisedData

SpecBuild == InitBuild /\ [][NextBuild]_vars

----------------------------------------------------------------------------
(* pre_run up to add_struct_ref_data, on files that have a _struct_ref       *)
(* category.                                                                 *)

MaxRefs == 1    \* most rows of one file's _struct_ref category

\* the rows of _struct_ref: a reference for the entity 1 and one for the entity 2
RefRows ==
    {[entity_id |-> <<"1">>, db_name |-> "UNP", db_code |-> "C1", pdbx_db_accession |-> "P1"],
     [entity_id |-> <<"2">>, db_name |-> "GB", db_code |-> "C2", pdbx_db_accession |-> "P2"]}

RefLists == SeqsUpTo(RefRows, MaxRefs)

\* the entities of the files of this specification
RefEntitySpecs ==
    {e \in EntitySpecs : ~e.blank_id /\ e.side \in {<< <<"A">> >>, << <<"H">> >>, <<>>}
                         /\ (e.type = Polymer => e.side # <<>>)}

RefSourceSpecs ==
    {src \in SourceSpecs : /\ src.meta.sites = <<"X">>
                           /\ \A j \in 1..Len(src.specs) : src.specs[j] \in RefEntitySpecs}

\* the files with the rows of their _struct_ref categories
WithStructRef(files, refs) ==
    [i \in 1..Len(files) |-> <<files[i][1], [files[i][2] EXCEPT !.struct_ref = refs[i]]>>]

InitRef ==
    /\ pc = "constructed"
    /\ operations = <<>>
    /\ loaded = <<>>
    /\ idx = 1
    /\ attempted = <<>>
    /\ failures = <<>>
    /\ log = <<>>
    /\ data = <<>>
    /\ mmcif_order = [isdict |-> TRUE, map |-> <<>>]
    /\ block = <<>>
    /\ file = <<>>
    /\ err = "none"
    /\ last = NoCall
    /\ builder \in Builders
    /\ \E n \in 1..MaxSources :
           \E sources \in [1..n -> RefSourceSpecs], refs \in [1..n -> RefLists] :
               model_files = WithStructRef(ModelFiles(sources), refs)
    /\ rdata = <<>>
    /\ rpc = "new"
    /\ table = <<>>
    /\ warned = <<>>
    /\ pass = 0
    /\ prev = <<>>
    /\ NotStarted

NextRef ==
    \/ rpc \in {"new", "stamped"} /\ StartPreRun
    \/ CreateDenormalisedTables
    \/ BuildDenormalisedData
    \/ AddStructRefData

SpecRef == InitRef /\ [][NextRef]_vars

----------------------------------------------------------------------------
(* pre_run followed by run() on a configuration with operation descriptors:  *)
(* the callers run im.pre_run(); im.run().                                   *)

\* the configurations of this specification: any operations, no declared order
RunConfigs == {c \in Configs : c.readable /\ c.has_order /\ c.mmcif_order = NoOrder}

\* the constructor on one model file of at most one entity
InitRun ==
    /\ InitPre
    /\ Len(model_files) = 1
    /\ Len(model_files[1][2].entity) <= 1

\* one pass of run()'s for loop, after pre_run returned
RunOperation(outcome) ==
    /\ rpc = "prepared"
    /\ RunStep(outcome)

NextRun ==
    \/ rpc \in {"new", "stamped"} /\ StartPreRun
    \/ CreateDenormalisedTables
    \/ BuildDenormalisedData
    \/ AddStructRefData
    \/ AddDescriptCategories
    \/ AddSampleCategory
    \/ AddSynchrotronData
    \/ AddExptlData
    \/ AddInvestigationId
    \/ rpc = "stamped" /\ \E json_data \in RunConfigs : PreRunReadJson(json_data)
    \/ rpc = "prepared" /\ pc = "ready" /\ \E outcome \in Outcomes : RunOperation(outcome)
    \/ rpc = "prepared" /\ \E strict \in BOOLEAN : RunAfterPreRun(strict)

SpecRun == InitRun /\ [][NextRun]_vars

----------------------------------------------------------------------------
(* sql_query descriptors: the engine's run() on them, and the debugging      *)
(* script src/debug_column_lengths.py that tests their queries.  A query is  *)
(* modelled by the shape of what it returns.  SQLOperation is code of the    *)
(* operations module: it binds the result columns to the target items by     *)
(* position.                                                                 *)

MaxColumns == 3       \* most columns a query returns
MaxResultRows == 2    \* most rows a query returns
MaxSqlOps == 2        \* most sql_query descriptors of a configuration

SqlTargets == {<<"a">>, <<"a", "b">>, <<"a", "b", "c">>}

SqlQueries == [columns : 1..MaxColumns, rows : 0..MaxResultRows]

SqlDescriptors ==
    [operation : {"sql_query"}, target_category : {"c1"}, target_items : SqlTargets,
     operation_parameters : [query : SqlQueries]]

SqlConfigs ==
    [readable : {TRUE}, operations : SeqsUpTo(SqlDescriptors, MaxSqlOps),
     has_order : {TRUE}, mmcif_order : {NoOrder}]

\* cursor.execute(query); cursor.fetchall(): rows of query.columns values each
sql_execute(query) ==
    [r \in 1..query.rows |-> [c \in 1..query.columns |-> 10 * r + c]]

\* SQLOperation.perform_operation: the j-th target item takes the j-th value of
\* every row.  A row shorter than the target list raises IndexError: before anything
\* is written, or (stream) after the items before the missing column were written.
sql_perform_operation(d, operation_data, stream) ==
    LET target == operation_data.target_items
        result == sql_execute(operation_data.operation_parameters.query)
        width == operation_data.operation_parameters.query.columns
        bound(j) == result = <<>> \/ j <= width
        entries == [j \in 1..Len(target) |->
                       <<target[j], bound(j),
                         IF bound(j) THEN [r \in 1..Len(result) |-> result[r][j]] ELSE <<>>>>]
    IN  IF ~stream /\ \E j \in 1..Len(target) : ~bound(j)
        THEN [data |-> d, raised |-> TRUE]
        ELSE set_items(d, operation_data.target_category, entries)

\* the body of run()'s for loop on a sql_query descriptor
run_sql_iteration(d, operation_data, stream) ==
    LET f == operation_factory(operation_data.operation)
    IN  IF f.raised THEN [data |-> d, failed |-> TRUE, logged |-> <<operation_data>>]
        ELSE LET r == sql_perform_operation(d, operation_data, stream)
             IN  [data |-> r.data, failed |-> r.raised,
                  logged |-> IF r.raised THEN <<operation_data>> ELSE <<>>]

\* ColumnLengthDebugger.analyze_sql_queries: the sql_query descriptors of the
\* configuration with the number of their target items
analyze_sql_queries(config_operations) ==
    LET at == SelectSeq([i \in 1..Len(config_operations) |-> i],
                        LAMBDA i : config_operations[i].operation = "sql_query")
    IN  [k \in 1..Len(at) |->
            [index |-> at[k] - 1,
             category |-> config_operations[at[k]].target_category,
             items |-> config_operations[at[k]].target_items,
             query |-> config_operations[at[k]].operation_parameters.query,
             expected_columns |-> Len(config_operations[at[k]].target_items)]]

\* ColumnLengthDebugger.test_sql_queries: the loop over sql_operations
RECURSIVE test_sql_queries(_, _)
test_sql_queries(st, sql_operations) ==
    IF sql_operations = <<>> THEN st
    ELSE LET sql_op == Head(sql_operations)
             results == sql_execute(sql_op.query)
             actual == IF results # <<>> THEN Len(results[1]) ELSE 0
         IN  test_sql_queries(
                 [query_results |->
                      Put(st.query_results, sql_op.category,
                          [expected_columns |-> sql_op.expected_columns,
                           actual_columns |-> actual, row_count |-> Len(results)]),
                  logged |-> IF results # <<>> /\ Len(results[1]) # sql_op.expected_columns
                             THEN Append(st.logged, sql_op.category) ELSE st.logged],
                 Tail(sql_operations))

\* Python's None, the value fix_column_mismatches pads with: no query returns it and
\* no operation computes it
None == "None"

\* values.extend([None] * padding_needed) for a column shorter than max_length
pad_column(values, max_length) ==
    values \o [k \in 1..(max_length - Len(values)) |-> None]

\* ColumnLengthDebugger.fix_column_mismatches: every category that has items gets
\* its shorter columns padded with None, in place, up to its longest column; the
\* method returns whether it has counted a category as fixed, and it counts every
\* category that has items, since the lengths are equal after the padding
fix_column_mismatches(d) ==
    LET padded(items) ==
            [j \in 1..Len(items) |->
                <<items[j][1], pad_column(items[j][2], SeqMax(Lengths(items)))>>]
        d1 == [j \in 1..Len(d) |->
                  <<d[j][1], IF d[j][2] = <<>> THEN <<>> ELSE padded(d[j][2])>>]
        fixed_categories ==
            SelectSeq([j \in 1..Len(d1) |-> d1[j][1]],
                      LAMBDA category : /\ Get(d1, category) # <<>>
                                        /\ Rectangular(Get(d1, category)))
    IN  [data |-> d1, ret |-> Len(fixed_categories) > 0]

\* read_json_operations on a configuration of sql_query descriptors
SqlReadJson(json_data) ==
    /\ ReadJsonOperations(json_data)
    /\ UNCHANGED <<rvars, xvars>>

\* one pass of run()'s for loop
RunSqlStep(stream) ==
    /\ pc = "ready"
    /\ idx <= Len(operations)
    /\ LET r == run_sql_iteration(data, operations[idx], stream)
       IN  /\ data' = r.data
           /\ log' = log \o r.logged
           /\ idx' = next_position(idx, r.failed)
           /\ failures' = Append(failures, r.failed)
    /\ attempted' = Append(attempted, idx)
    /\ UNCHANGED <<pc, operations, loaded, mmcif_order, block, file, err, last>>
    /\ UNCHANGED <<rvars, xvars>>

\* the debugging script, run on the configuration file the engine has read
TestSqlQueries ==
    /\ pc # "constructed"
    /\ query_results = <<>>
    /\ LET st == test_sql_queries([query_results |-> <<>>, logged |-> <<>>],
                                  analyze_sql_queries(loaded))
       IN  query_results' = st.query_results /\ debug_log' = st.logged
    /\ UNCHANGED <<pc, operations, loaded, idx, attempted, failures, log, data, mmcif_order, block,
                   file, err, last>>
    /\ UNCHANGED <<rvars, bvars, dvars, evars>>

\* fix_column_mismatches called on the engine's store; the script itself never calls
\* the method, so the call may come at any time
FixColumnMismatches ==
    /\ LET r == fix_column_mismatches(data)
       IN  /\ data' = r.data
           /\ last' = [op |-> "fix_column_mismatches", cat |-> "", entries |-> <<>>,
                       raised |-> FALSE, ret |-> <<r.ret>>]
    /\ UNCHANGED <<pc, operations, loaded, idx, attempted, failures, log, mmcif_order, block,
                   file, err>>
    /\ UNCHANGED <<rvars, xvars>>

NextSql ==
    \/ pc = "constructed" /\ \E json_data \in SqlConfigs : SqlReadJson(json_data)
    \/ \E stream \in BOOLEAN : RunSqlStep(stream)
    \/ \E strict \in BOOLEAN : Serialise(strict)
    \/ TestSqlQueries
    \/ FixColumnMismatches

SpecSql == Init /\ [][NextSql]_vars

----------------------------------------------------------------------------
(* InvestigationPdbe.process_entities_in_batches and _insert_batch          *)

MaxRecords == 4     \* most records of one call
MaxBatch == 3       \* largest config.batch_size

\* the records build_denormalised_data hands over: rows of two entities
BatchRecords ==
    {NewRow(<<n>>, <<"P", "1">>, <<"f", "1", ".", "c", "i", "f">>, <<Digits[n]>>, Polymer, <<"A">>, <<>>, PolyType) : n \in 1..2}

\* a variant that flushes one record late
batch_full_late(batch, size) == Len(batch) > size

\* if len(batch_data) >= self.config.batch_size
batch_full(batch, size) == Len(batch) >= size

\* cursor.executemany(insert_query, [...]): the rows are inserted one by one;
\* fault = k > 0: the k-th row makes sqlite3 raise, after the rows before it went in
executemany(rows, batch, fault) ==
    IF fault = 0 THEN [rows |-> rows \o batch, raised |-> FALSE]
    ELSE [rows |-> rows \o SubSeq(batch, 1, fault - 1), raised |-> TRUE]

\* sqlite_db_connection: try: yield conn; finally: conn.commit() -- what the
\* connection holds when the block is left is committed, exception or not
sqlite_db_connection(rows_before, rows_now, raised) == rows_now

\* _insert_batch: executemany inside the connection manager; except: log and raise
insert_batch(rows, batch, fault) ==
    LET e == executemany(rows, batch, fault)
    IN  [table |-> sqlite_db_connection(rows, e.rows, e.raised), raised |-> e.raised]

\* process_entities_in_batches is called on a created, empty table
InitBatch ==
    /\ EngineConstructed
    /\ model_files = <<>>
    /\ builder = "InvestigationPdbe"
    /\ rdata = <<>>
    /\ rpc = "created"
    /\ table = <<>>
    /\ warned = <<>>
    /\ pass = 1
    /\ prev = <<>>
    /\ DebuggerIdle
    /\ DownloadIdle
    /\ ExternalIdle
    /\ denormalized_data \in SeqsUpTo(BatchRecords, MaxRecords)
    /\ batch_size \in 1..MaxBatch
    /\ batch_data = <<>>
    /\ batches = <<>>
    /\ bidx = 1
    /\ bpc = "loop"

BatchFrame ==
    /\ UNCHANGED <<pc, operations, loaded, idx, attempted, failures, log, data, mmcif_order, block,
                   file, last>>
    /\ UNCHANGED <<model_files, builder, rdata, rpc, warned, pass, prev>>
    /\ UNCHANGED <<query_results, debug_log, denormalized_data, batch_size>>
    /\ UNCHANGED <<dvars, evars>>

\* one pass of the for loop that leaves the record in batch_data
CollectRecord ==
    /\ bpc = "loop"
    /\ bidx <= Len(denormalized_data)
    /\ ~batch_full(Append(batch_data, denormalized_data[bidx]), batch_size)
    /\ batch_data' = Append(batch_data, denormalized_data[bidx])
    /\ bidx' = bidx + 1
    /\ UNCHANGED <<table, batches, bpc, err>>
    /\ BatchFrame

\* one pass of the for loop that fills the batch and calls _insert_batch
FlushBatch(fault) ==
    /\ bpc = "loop"
    /\ bidx <= Len(denormalized_data)
    /\ LET full == Append(batch_data, denormalized_data[bidx])
       IN  /\ batch_full(full, batch_size)
           /\ fault <= Len(full)
           /\ LET r == insert_batch(table, full, fault)
              IN  /\ table' = r.table
                  /\ batches' = Append(batches, full)
                  /\ batch_data' = IF r.raised THEN full ELSE <<>>
                  /\ bidx' = IF r.raised THEN bidx ELSE bidx + 1
                  /\ bpc' = IF r.raised THEN "raised" ELSE bpc
                  /\ err' = IF r.raised THEN "sqlite3.Error" ELSE err
    /\ BatchFrame

\* after the loop: if batch_data: self._insert_batch(batch_data)
FlushRemaining(fault) ==
    /\ bpc = "loop"
    /\ bidx > Len(denormalized_data)
    /\ IF batch_data = <<>>
       THEN /\ fault = 0
            /\ bpc' = "done"
            /\ UNCHANGED <<table, batches, batch_data, err>>
       ELSE /\ fault <= Len(batch_data)
            /\ LET r == insert_batch(table, batch_data, fault)
               IN  /\ table' = r.table
                   /\ batches' = Append(batches, batch_data)
                   /\ bpc' = IF r.raised THEN "raised" ELSE "done"
                   /\ err' = IF r.raised THEN "sqlite3.Error" ELSE err
            /\ UNCHANGED batch_data
    /\ UNCHANGED bidx
    /\ BatchFrame

NextBatch ==
    \/ CollectRecord
    \/ \E fault \in 0..MaxBatch : FlushBatch(fault)
    \/ \E fault \in 0..MaxBatch : FlushRemaining(fault)

SpecBatch == InitBatch /\ [][NextBatch]_vars

----------------------------------------------------------------------------
(* download_and_run_pdbe_investigation (src/mmcif_gen/facilities/pdbe.py).   *)
(* A PDB id is the sequence of its characters.                              *)

MaxIds == 2     \* most ids of one call

\* validate_pdb_id: four characters, a digit and three alphanumerics
validate_pdb_id(pdb_id) ==
    /\ Len(pdb_id) = 4
    /\ pdb_id[1] \in DigitChars
    /\ \A j \in 2..4 :
           \/ pdb_id[j] \in DigitChars
           \/ \E k \in 1..Len(LowerChars) : pdb_id[j] \in {LowerChars[k], UpperChars[k]}

\* validate_pdb_ids: the valid ids in upper case, ValueError when there is none
validate_pdb_ids(ids) ==
    LET valid_ids == SelectSeq([j \in 1..Len(ids) |-> upper(ids[j])], validate_pdb_id)
    IN  [raised |-> valid_ids = <<>>, valid_ids |-> valid_ids]

\* the ids a caller passes
RawIds == {<<"1", "a", "b", "c">>, <<"2", "D", "E", "F">>, <<"z", "z">>}

\* what requests.get and the unpacking of its body do for one URL: a gzip body with
\* status 200, another status, a RequestException, or status 200 with a body that
\* gzip cannot read
Responses == {"ok", "missing", "error", "corrupt"}

\* the files the unpacking of a status 200 response leaves in the directory
written_files(pdb_code) == {<<pdb_code, ".cif.gz">>, <<pdb_code, ".cif">>}

\* the loop over ["updated", "archive"] for one id: the requests made, whether the
\* id was downloaded, and the exception that left the loop, if any
try_urls(pdb_code, updated, archive) ==
    LET first == <<pdb_code, "updated">>
        second == <<pdb_code, "archive">>
    IN  CASE updated = "ok" ->
                 [requested |-> <<first>>, success |-> TRUE, raised |-> "none",
                  files |-> written_files(pdb_code)]
          [] updated = "corrupt" ->
                 [requested |-> <<first>>, success |-> FALSE, raised |-> "BadGzipFile",
                  files |-> written_files(pdb_code)]
          [] OTHER ->
                 CASE archive = "ok" ->
                          [requested |-> <<first, second>>, success |-> TRUE, raised |-> "none",
                           files |-> written_files(pdb_code)]
                   [] archive = "corrupt" ->
                          [requested |-> <<first, second>>, success |-> FALSE,
                           raised |-> "BadGzipFile", files |-> written_files(pdb_code)]
                   [] OTHER ->
                          [requested |-> <<first, second>>, success |-> FALSE, raised |-> "none",
                           files |-> {}]

\* cleanup_temp_files: the files of the ids are removed, then the directory
cleanup_temp_files(dir, ids) == NoTempDir

InitDownload ==
    /\ EngineConstructed
    /\ ReaderIdle
    /\ DebuggerIdle
    /\ BatchesIdle
    /\ ExternalIdle
    /\ pdb_ids \in SeqsUpTo(RawIds, MaxIds)
    /\ validated_pdb_ids = <<>>
    /\ didx = 1
    /\ downloaded_files = <<>>
    /\ failed_downloads = <<>>
    /\ requested = <<>>
    /\ temp_dir = NoTempDir
    /\ runs = 0
    /\ dpc = "called"

DownloadFrame ==
    /\ UNCHANGED <<pc, operations, loaded, idx, attempted, failures, log, data, mmcif_order, block,
                   file, last>>
    /\ UNCHANGED <<rvars, bvars, evars, query_results, debug_log, pdb_ids>>

\* validate_pdb_ids(pdb_ids); temp_dir = tempfile.mkdtemp()
ValidateIds ==
    /\ dpc = "called"
    /\ LET v == validate_pdb_ids(pdb_ids)
       IN  IF v.raised
           THEN /\ dpc' = "raised"
                /\ err' = "ValueError"
                /\ UNCHANGED <<validated_pdb_ids, temp_dir>>
           ELSE /\ dpc' = "downloading"
                /\ validated_pdb_ids' = v.valid_ids
                /\ temp_dir' = [exists |-> TRUE, files |-> {}]
                /\ err' = err
    /\ UNCHANGED <<didx, downloaded_files, failed_downloads, requested, runs>>
    /\ DownloadFrame

\* one pass of the loop over validated_pdb_ids; an exception other than a
\* RequestException leaves the function through except/finally
DownloadId(updated, archive) ==
    /\ dpc = "downloading"
    /\ didx <= Len(validated_pdb_ids)
    /\ LET pdb_code == validated_pdb_ids[didx]
           t == try_urls(pdb_code, updated, archive)
       IN  /\ requested' = requested \o t.requested
           /\ downloaded_files' = IF t.success THEN Append(downloaded_files, pdb_code)
                                  ELSE downloaded_files
           /\ failed_downloads' = IF ~t.success /\ t.raised = "none"
                                  THEN Append(failed_downloads, pdb_code) ELSE failed_downloads
           /\ IF t.raised = "none"
              THEN /\ temp_dir' = [temp_dir EXCEPT !.files = @ \cup t.files]
                   /\ didx' = didx + 1
                   /\ UNCHANGED <<dpc, err>>
              ELSE /\ temp_dir' = cleanup_temp_files(temp_dir, validated_pdb_ids)
                   /\ dpc' = "raised"
                   /\ err' = t.raised
                   /\ UNCHANGED didx
    /\ UNCHANGED <<validated_pdb_ids, runs>>
    /\ DownloadFrame

\* after the loop: run(temp_dir, ...) if something was downloaded, ValueError
\* otherwise; finally: cleanup_temp_files
RunDownloaded(pipeline_raises) ==
    /\ dpc = "downloading"
    /\ didx > Len(validated_pdb_ids)
    /\ IF downloaded_files # <<>>
       THEN /\ runs' = runs + 1
            /\ dpc' = IF pipeline_raises THEN "raised" ELSE "returned"
            /\ err' = IF pipeline_raises THEN "Exception" ELSE err
       ELSE /\ ~pipeline_raises
            /\ runs' = runs
            /\ dpc' = "raised"
            /\ err' = "ValueError"
    /\ temp_dir' = cleanup_temp_files(temp_dir, validated_pdb_ids)
    /\ UNCHANGED <<validated_pdb_ids, didx, downloaded_files, failed_downloads, requested>>
    /\ DownloadFrame

NextDownload ==
    \/ ValidateIds
    \/ \E updated, archive \in Responses : DownloadId(updated, archive)
    \/ \E pipeline_raises \in BOOLEAN : RunDownloaded(pipeline_raises)

SpecDownload == InitDownload /\ [][NextDownload]_vars

----------------------------------------------------------------------------
(* ExternalInformation (src/investigation_io.py): the InChIKey table read    *)
(* from a csv file with the columns CHEM_COMP_ID and DESCRIPTOR.             *)

MaxCsvRows == 2     \* most data rows of the csv file
MaxLookups == 4     \* most calls of get_inchi_key on one object

\* the data rows of the file, as <<CHEM_COMP_ID, DESCRIPTOR>>
CsvRows == {<<"H", "K1">>, <<"W", "K2">>, <<"H", "K3">>}

\* the component ids get_inchi_key is asked for
ChemCompIds == {"H", "W", "Z"}

\* _load_inchi_keys: nothing when self.inchi_keys is truthy; otherwise the file is
\* opened and every data row is put into the dict
load_inchi_keys(keys, rows) ==
    IF keys # <<>> THEN [inchi_keys |-> keys, reads |-> 0]
    ELSE [inchi_keys |-> dict_update(keys, rows), reads |-> 1]

\* _get_inchi_key: self.inchi_keys.get(chem_comp_id)
get_inchi_key_cached(keys, chem_comp_id) ==
    IF HasKey(keys, chem_comp_id) THEN <<Get(keys, chem_comp_id)>> ELSE NULL

\* ExternalInformation(filename)
InitExternal ==
    /\ EngineConstructed
    /\ ReaderIdle
    /\ DebuggerIdle
    /\ BatchesIdle
    /\ DownloadIdle
    /\ csv_rows \in SeqsUpTo(CsvRows, MaxCsvRows)
    /\ inchi_keys = <<>>
    /\ file_reads = 0
    /\ lookups = 0
    /\ returned = NULL

\* get_inchi_key(chem_comp_id)
GetInchiKey(chem_comp_id) ==
    /\ lookups < MaxLookups
    /\ LET l == load_inchi_keys(inchi_keys, csv_rows)
       IN  /\ inchi_keys' = l.inchi_keys
           /\ file_reads' = file_reads + l.reads
           /\ returned' = get_inchi_key_cached(l.inchi_keys, chem_comp_id)
    /\ lookups' = lookups + 1
    /\ UNCHANGED <<pc, operations, loaded, idx, attempted, failures, log, data, mmcif_order, block,
                   file, err, last>>
    /\ UNCHANGED <<rvars, bvars, dvars, query_results, debug_log, csv_rows>>

NextExternal == \E chem_comp_id \in ChemCompIds : GetInchiKey(chem_comp_id)

SpecExternal == InitExternal /\ [][NextExternal]_vars

----------------------------------------------------------------------------
(* Properties *)

Range(s) == {s[j] : j \in 1..Len(s)}

Terminal == pc \in {"done", "crashed"}

SomeFailure == \E k \in 1..Len(failures) : failures[k]

ValuesOf(d, c, i) ==
    IF HasKey(d, c) /\ HasKey(Get(d, c), i) THEN Get(Get(d, c), i) ELSE <<>>

ItemKeys(d, c) == IF HasKey(d, c) THEN Keys(Get(d, c)) ELSE <<>>

\* C1: when run() reaches write_data_to_cif, all items of every category of
\* the store have the same number of values.
C1_EqualLengthAtSerialise ==
    (pc = "ready" /\ idx > Len(operations))
        => \A j \in 1..Len(data) : Rectangular(data[j][2])

RECURSIVE PayloadsOfFailures(_)
PayloadsOfFailures(k) ==
    IF k = 0 THEN <<>>
    ELSE PayloadsOfFailures(k - 1)
         \o (IF failures[k] THEN <<operations[attempted[k]]>> ELSE <<>>)

\* C2: every descriptor whose operation raised is logged with its payload (the
\* log holds exactly the payloads of the failed attempts, in order), and every
\* descriptor after a failed one is attempted: it has been, or the loop is
\* still before it.
C2_FailureLoggedAndRunContinues ==
    /\ Len(failures) = Len(attempted)
    /\ \A k \in 1..Len(attempted) : attempted[k] \in 1..Len(operations)
    /\ log = PayloadsOfFailures(Len(attempted))
    /\ \A k \in 1..Len(attempted) :
          failures[k] =>
              \A j \in (attempted[k] + 1)..Len(operations) :
                  j \in Range(attempted) \/ (pc = "ready" /\ idx <= j)

\* a run that ended, in which the first descriptor failed and was logged and
\* the second one wrote to the store
C2_Witness ==
    /\ pc = "done"
    /\ Len(attempted) >= 2
    /\ failures[1] /\ ~failures[2]
    /\ log = <<operations[1]>>
    /\ data # <<>>

\* every item of a declared order is a target item of some descriptor for
\* that category
OrderTargeted ==
    \A c \in DOMAIN mmcif_order.map :
        \A p \in 1..Len(mmcif_order.map[c]) :
            \E j \in 1..Len(operations) :
                /\ operations[j].target_category = c
                /\ mmcif_order.map[c][p] \in Range(operations[j].target_items)

\* C3: a run in which a descriptor failed still ends with the document
\* written, holding every category of the store (for a configuration with an
\* order map that names only target items, and a writer that takes the data).
C3_FailureNeverAbortsRun ==
    (Terminal /\ SomeFailure /\ mmcif_order.isdict /\ OrderTargeted /\ err # "WriterError")
        => (pc = "done" /\ file = <<block>> /\ Keys(block) = Keys(data))

\* C4: the attempts are the positions 1, 2, ... of the operations list, each
\* once and in order, all of them once run() has ended, and the list is the
\* one read from the configuration file.
C4_EachDescriptorOnceInOrder ==
    /\ attempted = [k \in 1..Len(attempted) |-> k]
    /\ Len(attempted) <= Len(operations)
    /\ pc = "ready" => idx = Len(attempted) + 1
    /\ Terminal => Len(attempted) = Len(operations)
    /\ operations = loaded

\* a run that ended after a list of two or more descriptors
C4_Witness ==
    /\ Terminal
    /\ Len(operations) >= 2
    /\ Len(attempted) = Len(operations)
    /\ operations[1] # operations[2]

\* C5: after a descriptor of unknown kind was attempted, no further descriptor
\* is attempted and nothing is serialised.
C5_UnknownKindAbortsRun ==
    \A k \in 1..Len(attempted) :
        operations[attempted[k]].operation \notin KnownKinds
            => (k = Len(attempted) /\ pc # "done" /\ block = <<>> /\ file = <<>>)

EntryItems(entries) == {entries[j][1] : j \in 1..Len(entries)}

EntryValues(entries, i) ==
    IF i \in EntryItems(entries)
    THEN entries[CHOOSE j \in 1..Len(entries) : entries[j][1] = i][3]
    ELSE <<>>

\* the items of entries that items does not hold, in the order of entries
NewItems(entries, items) ==
    SelectSeq([j \in 1..Len(entries) |-> entries[j][1]], LAMBDA i : ~HasKey(items, i))

\* C6: a set_items call that returns extends each named item by the given
\* values after the ones it held, creates the category and the items that
\* were absent (after the existing ones), and changes nothing else.
C6_SetItemsAppends ==
    [][(last'.op = "set_items" /\ ~last'.raised) =>
          LET c == last'.cat
              entries == last'.entries
              old == IF HasKey(data, c) THEN Get(data, c) ELSE <<>>
          IN  /\ Keys(data') = IF HasKey(data, c) THEN Keys(data) ELSE Append(Keys(data), c)
              /\ \A o \in KeySet(data) \ {c} : Get(data', o) = Get(data, o)
              /\ ItemKeys(data', c) = Keys(old) \o NewItems(entries, old)
              /\ \A i \in KeySet(Get(data', c)) :
                    ValuesOf(data', c, i) = ValuesOf(data, c, i) \o EntryValues(entries, i)
      ]_vars

\* a set_items call with values for an item that already held some, in a
\* store with another category
C6_Witness ==
    /\ last.op = "set_items" /\ ~last.raised
    /\ Len(data) = 2
    /\ \E j \in 1..Len(last.entries) :
          LET now == ValuesOf(data, last.cat, last.entries[j][1])
          IN  /\ last.entries[j][3] # <<>>
              /\ Len(now) > Len(last.entries[j][3])

\* C7: set_item on an item leaves its values in place and adds the new ones
\* after them.
C7_SetItemAppends ==
    [][last'.op = "set_item" =>
          LET c == last'.cat
              i == last'.entries[1][1]
          IN  ValuesOf(data', c, i) = ValuesOf(data, c, i) \o last'.entries[1][3]
      ]_vars

IsPrefix(s, t) == Len(s) <= Len(t) /\ SubSeq(t, 1, Len(s)) = s

\* C8: no step removes an item from the store, shortens its values or changes
\* the values it held.
C8_StoreNeverDropsRows ==
    [][\A c \in KeySet(data) : \A i \in KeySet(Get(data, c)) :
          /\ HasKey(data', c)
          /\ HasKey(Get(data', c), i)
          /\ IsPrefix(Get(Get(data, c), i), ValuesOf(data', c, i))
      ]_vars

DeclaredOrder(c) ==
    IF mmcif_order.isdict /\ c \in DOMAIN mmcif_order.map THEN mmcif_order.map[c] ELSE <<>>

\* the items of the declared order of c that the category holds, in declared order
DeclaredHeld(c) ==
    SelectSeq(DeclaredOrder(c), LAMBDA i : HasKey(Get(data, c), i))

\* C9: when run() serialises (with an order map, and a writer that takes the data),
\* every category of the store is emitted: first the items its declared order names,
\* in that order, then the other items of the category in the order the store holds
\* them (first insertion), each with the values the store held.
C9_DeclaredOrderThenInsertionOrder ==
    [][(pc = "ready" /\ pc' # "ready" /\ mmcif_order.isdict /\ err' # "WriterError") =>
          \A c \in KeySet(data) :
              /\ HasKey(block', c)
              /\ Keys(Get(block', c))
                   = DeclaredHeld(c) \o SelectSeq(Keys(Get(data, c)),
                                                  LAMBDA i : i \notin Range(DeclaredOrder(c)))
              /\ \A i \in KeySet(Get(data, c)) :
                     Get(Get(block', c), i) = Get(Get(data, c), i)
      ]_vars

\* the (item, length) pairs of the items shorter than the longest of their category
Mismatches(items) ==
    SelectSeq([j \in 1..Len(items) |-> <<items[j][1], Len(items[j][2])>>],
              LAMBDA e : \E j \in 1..Len(items) : Len(items[j][2]) > e[2])

\* C10: integrity_check never raises, leaves the store as it is, and reports
\* for each category with items of unequal length the items that are shorter
\* than the longest one.
C10_IntegrityCheckReportsMismatches ==
    last.op = "integrity_check" =>
        /\ ~last.raised
        /\ last.ret = SelectSeq([j \in 1..Len(data) |-> <<data[j][1], Mismatches(data[j][2])>>],
                                LAMBDA e : e[2] # <<>>)

----------------------------------------------------------------------------
(* Properties of the builder and of the enrichment steps *)

Rows == 1..Len(table)

IsPolymer(r) == r.type \in PolymerKinds

IsNonPolymer(r) == r.type \in NonPolymerKinds

\* the content fingerprint: the trimmed sequence of a polymer, the component id of a
\* non-polymer or water entity
SameFingerprint(r1, r2) ==
    \/ IsPolymer(r1) /\ IsPolymer(r2) /\ r1.seq_one_letter_code = r2.seq_one_letter_code
    \/ IsNonPolymer(r1) /\ IsNonPolymer(r2) /\ r1.chem_comp_id = r2.chem_comp_id

\* C11: two rows with the same content fingerprint (the same trimmed sequence for
\* polymers, the same component id for non-polymer/water) carry the same ordinal,
\* whichever files they come from and whichever file was read first.
C11_SameFingerprintSameOrdinal ==
    \A i, j \in Rows :
        SameFingerprint(table[i], table[j])
            => table[i].investigation_entity_id = table[j].investigation_entity_id

Fingerprint(r) == IF IsPolymer(r) THEN r.seq_one_letter_code ELSE r.chem_comp_id

ClassRows(kinds) == {j \in Rows : table[j].type \in kinds}

OrdinalsInUse(kinds) == {table[j].investigation_entity_id[1] : j \in ClassRows(kinds)}

FingerprintsInUse(kinds) == {Fingerprint(table[j]) : j \in ClassRows(kinds)}

\* C12: within the polymer class and within the non-polymer/water class the ordinals
\* in use are exactly 1..k for the k distinct fingerprints of the class, and two
\* different fingerprints of one class never share an ordinal (each class has its own
\* counter, and takes no ordinal the other class allocated).
C12_IndependentDenseCounters ==
    \A kinds \in {PolymerKinds, NonPolymerKinds} :
        /\ OrdinalsInUse(kinds) = 1..Cardinality(FingerprintsInUse(kinds))
        /\ \A i, j \in ClassRows(kinds) :
               Fingerprint(table[i]) # Fingerprint(table[j])
                   => table[i].investigation_entity_id # table[j].investigation_entity_id

\* the states in which add_descript_categories has returned in the current pass
AfterDescript == rpc \in {"descript", "sample", "synchrotron", "exptl", "stamped", "prepared"}

\* the set of ordinals of the rows of these kinds that carry this source identifier
OrdinalSet(pdb_id, kinds) ==
    {table[j].investigation_entity_id[1] : j \in {k \in ClassRows(kinds) : table[k].pdb_id = pdb_id}}

\* C13: after add_descript_categories two sources have the same polymer group id
\* exactly when the sets of polymer ordinals of their rows are equal, and the same
\* non-polymer group id exactly when their sets of non-polymer/water ordinals are
\* equal, also when a source holds several entities with one ordinal.
C13_SameGroupIffSameOrdinalSet ==
    AfterDescript =>
        \A i, j \in Rows :
            /\ (table[i].poly_descript = table[j].poly_descript)
                   <=> (OrdinalSet(table[i].pdb_id, PolymerKinds)
                            = OrdinalSet(table[j].pdb_id, PolymerKinds))
            /\ (table[i].nonpoly_descript = table[j].nonpoly_descript)
                   <=> (OrdinalSet(table[i].pdb_id, NonPolymerKinds)
                            = OrdinalSet(table[j].pdb_id, NonPolymerKinds))

\* the rows of these kinds whose source no earlier row of these kinds has: the sources
\* in the order they were processed
FirstRows(kinds) ==
    {j \in ClassRows(kinds) : \A k \in ClassRows(kinds) : k < j => table[k].pdb_id # table[j].pdb_id}

\* the id first-seen numbering gives the group of the source of row j: one more than
\* the number of different ordinal sets of the sources processed before the first
\* source that has the set of j's source
FirstSeenId(j, kinds) ==
    LET mine == OrdinalSet(table[j].pdb_id, kinds)
        first == CHOOSE f \in FirstRows(kinds) :
                     /\ OrdinalSet(table[f].pdb_id, kinds) = mine
                     /\ \A g \in FirstRows(kinds) :
                            OrdinalSet(table[g].pdb_id, kinds) = mine => f <= g
    IN  Cardinality({OrdinalSet(table[g].pdb_id, kinds) : g \in {h \in FirstRows(kinds) : h <= first}})

\* C14: description-group ids are given in first-seen order from 1: the group of the
\* first source processed has id 1, a later source with an ordinal set not seen before
\* has the next unused id, and no id stands for two groups.
C14_GroupIdsFirstSeen ==
    AfterDescript =>
        /\ \A j \in ClassRows(PolymerKinds) :
               table[j].poly_descript = <<FirstSeenId(j, PolymerKinds)>>
        /\ \A j \in ClassRows(NonPolymerKinds) :
               table[j].nonpoly_descript = <<FirstSeenId(j, NonPolymerKinds)>>

\* the states in which add_sample_category has returned in the current pass
AfterSample == rpc \in {"sample", "synchrotron", "exptl", "stamped", "prepared"}

\* C15: after add_sample_category every row has a sample id, and two rows have the
\* same sample id exactly when their (polymer group id, non-polymer group id) pairs
\* are equal, also for sources without polymer or without non-polymer/water entity.
C15_SampleIdPerGroupPair ==
    AfterSample =>
        /\ \A j \in Rows : table[j].sample_id # NULL
        /\ \A i, j \in Rows :
               (table[i].sample_id = table[j].sample_id)
                   <=> (/\ table[i].poly_descript = table[j].poly_descript
                        /\ table[i].nonpoly_descript = table[j].nonpoly_descript)

AfterSynchrotron == rpc \in {"synchrotron", "exptl", "stamped", "prepared"}

\* the facility sites of the files in the order add_synchrotron_data meets them
RECURSIVE SitesOf(_)
SitesOf(files) ==
    IF files = <<>> THEN <<>>
    ELSE [k \in 1..Len(Head(files)[2].diffrn_source) |->
             Head(files)[2].diffrn_source[k].pdbx_synchrotron_site] \o SitesOf(Tail(files))

\* the number of distinct sites met up to the first occurrence of this one
FirstSeenCampaign(site) ==
    LET sites == SitesOf(rdata)
        first == CHOOSE j \in 1..Len(sites) :
                     sites[j] = site /\ \A k \in 1..(j - 1) : sites[k] # site
    IN  Cardinality({sites[k] : k \in 1..first})

\* the rows of the files that have a _diffrn_source category
SiteRows == {j \in 1..Len(table) : Get(rdata, table[j].file_name).diffrn_source # <<>>}

\* C16: after add_synchrotron_data the campaign ids are allocated densely, one per
\* distinct facility site, in first-seen order starting at 1: every row of a source
\* with a site carries the source's site and the number of distinct sites met up to
\* the first occurrence of that site, so rows of sources with the same site have the
\* same campaign id and rows of sources with different sites have different ids.
C16_CampaignIdsDenseFirstSeen ==
    AfterSynchrotron =>
        /\ \A j \in SiteRows :
               LET rows == Get(rdata, table[j].file_name).diffrn_source
                   site == rows[Len(rows)].pdbx_synchrotron_site
               IN  /\ table[j].synchrotron_site = <<site>>
                   /\ table[j].campaign_id = <<FirstSeenCampaign(site)>>
        /\ \A j, k \in SiteRows :
               (table[j].synchrotron_site = table[k].synchrotron_site)
                   <=> (table[j].campaign_id = table[k].campaign_id)

\* two sources with different sites, the first one met being the later one in
\* alphabetical order, and their rows carry the ids 1 and 2
C16_Witness ==
    /\ AfterSynchrotron
    /\ \E j, k \in 1..Len(table) :
           /\ table[j].synchrotron_site = <<"Y">> /\ table[j].campaign_id = <<1>>
           /\ table[k].synchrotron_site = <<"X">> /\ table[k].campaign_id = <<2>>

\* the ids the builder and the enrichment steps gave to the rows
AssignedIds(rows) ==
    [j \in 1..Len(rows) |->
        [file_name |-> rows[j].file_name,
         entity_id |-> rows[j].entity_id,
         investigation_entity_id |-> rows[j].investigation_entity_id,
         poly_descript |-> rows[j].poly_descript,
         nonpoly_descript |-> rows[j].nonpoly_descript,
         sample_id |-> rows[j].sample_id,
         campaign_id |-> rows[j].campaign_id]]

SecondPassDone == pass = 2 /\ rpc \in {"stamped", "prepared"}

AfterBuild ==
    /\ rpc \notin {"new", "read", "created"}
    /\ ~(rpc = "raised" /\ err \in {"ValueError", "FileNotFoundError"})

\* an entity row whose source has a database code and whose identifier is not empty
ValidEntity(datablock, row) ==
    datablock.database_2 # <<>> /\ clean_text_field(row.id) # <<>>

\* C18: no row of the denormalised table has an empty source identifier or an
\* empty entity identifier; once the builder has run, every entity with both
\* identifiers has its row and every entity without one of them was dropped with a
\* warning, whatever the other entities of its source and of the other sources are.
C18_InvalidEntitiesDroppedWithWarning ==
    /\ \A j \in 1..Len(table) :
           table[j].pdb_id # <<>> /\ clean_text_field(table[j].entity_id) # <<>>
    /\ AfterBuild =>
           \A i \in 1..Len(rdata) : \A e \in 1..Len(rdata[i][2].entity) :
               LET row == rdata[i][2].entity[e]
               IN  IF ValidEntity(rdata[i][2], row)
                   THEN \E j \in 1..Len(table) :
                            /\ table[j].file_name = rdata[i][1]
                            /\ clean_text_field(table[j].entity_id) = clean_text_field(row.id)
                   ELSE \E w \in 1..Len(warned) : warned[w] = <<rdata[i][1], row.id>>

\* some model file lacks the category _database_2
Deficient == \E i \in 1..Len(model_files) : model_files[i][2].database_2 = <<>>

\* C19: when a source lacks _database_2, which the required enrichments need, pre_run
\* never gets past the first step that reads the category: it raises there (an
\* IndexError, unless the CIFReader builder raised on an earlier file for its
\* unbound poly_type), or it raised before it had read every file: the inputs of
\* InvestigationPdbe failed validation (a ValueError) or a file of the CIFReader
\* builder does not exist (a FileNotFoundError); so pre_run never reaches
\* read_json_operations, no operation is loaded or attempted and no output document
\* is written.
C19_MissingRequiredCategoryIsFatal ==
    Deficient =>
        /\ rpc \in {"new", "read", "created", "built", "raised"}
        /\ rpc = "built" => builder = "InvestigationPdbe"
        /\ rpc = "raised" /\ Len(rdata) = Len(model_files) =>
               err \in {"IndexError", "UnboundLocalError"}
        /\ rpc = "raised" /\ Len(rdata) = Len(model_files) /\ builder = "InvestigationPdbe" =>
               err = "IndexError"
        /\ rpc = "raised" /\ Len(rdata) < Len(model_files) =>
               /\ table = <<>>
               /\ IF builder = "InvestigationPdbe" THEN err = "ValueError" /\ rdata = <<>>
                  ELSE err = "FileNotFoundError"
        /\ pc = "constructed"
        /\ operations = <<>> /\ attempted = <<>>
        /\ block = <<>> /\ file = <<>>

\* pre_run has raised on two sources of which one has the category and one lacks
\* it, after the builder dropped the entities of the deficient one
C19_Witness ==
    /\ Deficient
    /\ \E i \in 1..Len(model_files) : model_files[i][2].database_2 # <<>>
    /\ rpc = "raised" /\ err = "IndexError"
    /\ warned # <<>> /\ table # <<>>

\* the files that lack the category _diffrn_source
WithoutSynchrotron == {i \in 1..Len(rdata) : rdata[i][2].diffrn_source = <<>>}

\* the files without the i-th
AllBut(files, i) == SelectSeq(files, LAMBDA f : f[1] # files[i][1])

\* C20: when a source lacks _diffrn_source, add_synchrotron_data raises nothing;
\* afterwards the rows of that source have no synchrotron site and no campaign id,
\* and the site and the campaign id of every other row are the ones the step gives
\* when it runs on the files without the deficient source.
C20_MissingSynchrotronCategoryIsSkipped ==
    \A i \in WithoutSynchrotron :
        /\ rpc = "sample" => add_synchrotron_data(rdata, table).raised = "none"
        /\ AfterSynchrotron =>
               /\ \A j \in 1..Len(table) :
                      table[j].file_name = rdata[i][1] =>
                          table[j].synchrotron_site = NULL /\ table[j].campaign_id = NULL
               /\ add_synchrotron_data(AllBut(rdata, i), table).raised = "none"
               /\ add_synchrotron_data(AllBut(rdata, i), table).table = table

\* the first source lacks the category and has a row without site and campaign id,
\* the second has the site X and its row the campaign id 1
C20_Witness ==
    /\ AfterSynchrotron
    /\ Len(rdata) = 2 /\ 1 \in WithoutSynchrotron
    /\ \E j, k \in 1..Len(table) :
           /\ table[j].file_name = rdata[1][1]
           /\ table[j].synchrotron_site = NULL /\ table[j].campaign_id = NULL
           /\ table[k].file_name = rdata[2][1]
           /\ table[k].synchrotron_site = <<"X">> /\ table[k].campaign_id = <<1>>

----------------------------------------------------------------------------
(* Properties of the sql_query descriptors *)

\* the descriptor run() is about to attempt returns another number of columns than
\* it declares target items
ColumnCountMismatch ==
    /\ pc = "ready" /\ idx <= Len(operations)
    /\ operations[idx].operation_parameters.query.columns # Len(operations[idx].target_items)

\* C21: when run() attempts a sql_query descriptor whose query returns another
\* number of columns than the descriptor declares target items, the attempt is
\* logged and leaves the store as it was: no column of the result is written.
C21_ColumnCountMismatchWritesNothing ==
    [][ColumnCountMismatch /\ attempted' # attempted
           => data' = data /\ log' = Append(log, operations[idx])]_vars

----------------------------------------------------------------------------
(* Properties of the batched insertion *)

RECURSIVE Flatten(_)
Flatten(ss) == IF ss = <<>> THEN <<>> ELSE Head(ss) \o Flatten(Tail(ss))

\* C22: every batch handed to _insert_batch is non-empty and holds at most
\* batch_size records, the batches issued so far followed by the pending batch_data
\* are the records the loop has passed, in order, and when the call returns it has
\* issued exactly ceil(n / batch_size) batches whose concatenation is the input list.
C22_BatchesPartitionTheRecords ==
    bpc # "idle" =>
        /\ \A k \in 1..Len(batches) : batches[k] # <<>> /\ Len(batches[k]) <= batch_size
        /\ bpc = "loop" =>
               Flatten(batches) \o batch_data = SubSeq(denormalized_data, 1, bidx - 1)
        /\ bpc = "done" =>
               /\ Flatten(batches) = denormalized_data
               /\ Len(batches) = (Len(denormalized_data) + batch_size - 1) \div batch_size

\* four records in batches of three: a full batch and a last batch of one
C22_Witness ==
    /\ bpc = "done"
    /\ Len(denormalized_data) = 4 /\ batch_size = 3
    /\ Len(batches) = 2 /\ Len(batches[1]) = 3 /\ Len(batches[2]) = 1
    /\ denormalized_data[1] # denormalized_data[2]

\* C30: an _insert_batch call that ends in a database error hands the error to its
\* caller and leaves the table as it was before the call: none of the rows of the
\* failed batch is in the table.
C30_FailedBatchLeavesTable ==
    [][bpc = "loop" /\ bpc' = "raised" => err' = "sqlite3.Error" /\ table' = table]_vars

----------------------------------------------------------------------------
(* Properties of download_and_run_pdbe_investigation *)

\* the function has returned or raised after it had created the directory
DownloadEnded == dpc \in {"returned", "raised"} /\ validated_pdb_ids # <<>>

\* C23: once the ids are validated and the directory exists, every id is requested at
\* its updated URL before its archive URL; when the function ends, the pipeline has
\* run exactly once if an id was downloaded, and otherwise the function raised
\* ValueError without running it; and the directory and its files are gone, also
\* when the pipeline raised.
C23_RunsOnceAndCleansUp ==
    /\ \A k \in 1..Len(requested) :
           requested[k][2] = "archive" =>
               k > 1 /\ requested[k - 1] = <<requested[k][1], "updated">>
    /\ DownloadEnded =>
           /\ IF downloaded_files # <<>> THEN runs = 1
              ELSE runs = 0 /\ dpc = "raised" /\ err = "ValueError"
           /\ temp_dir = NoTempDir

----------------------------------------------------------------------------
(* Properties of the order of the phases *)

\* the positions of pre_run in the order of its calls
PreRunOrder ==
    <<"new", "read", "created", "built", "struct_ref", "descript", "sample", "synchrotron", "exptl",
      "stamped", "prepared">>

\* a step from one position of pre_run to the next, or out of it by an exception
NextInOrder(from, to) ==
    \/ to = "raised"
    \/ \E k \in 1..Len(PreRunOrder) - 1 : PreRunOrder[k] = from /\ PreRunOrder[k + 1] = to
    \/ from = "stamped" /\ to = "read"

\* C24: every step of pre_run goes from one call to the next one in the order load,
\* denormalise, enrich (description groups before sample groups), a further pass
\* starting again at load only after the last enrichment step; a descriptor is
\* executed only after pre_run returned, that is after every enrichment step, and
\* the file is written only after every descriptor was attempted.
C24_PhasesInOrder ==
    [][/\ rpc' # rpc => NextInOrder(rpc, rpc')
       /\ rpc' = "sample" /\ rpc # "sample" => rpc = "descript"
       /\ attempted' # attempted => rpc = "prepared" /\ rpc' = "prepared" /\ pc = "ready"
       /\ pc' \in {"done", "crashed"} /\ pc = "ready" =>
              /\ rpc = "prepared"
              /\ Len(attempted) = Len(operations)
              /\ \A k \in 1..Len(operations) : \E j \in 1..Len(attempted) : attempted[j] = k]_vars

\* two descriptors were attempted after a pre_run of two passes, and the file is written
C24_Witness ==
    /\ pc = "done"
    /\ pass = 2
    /\ Len(operations) = 2
    /\ Len(attempted) = 2
    /\ failures[1]
    /\ table # <<>>

----------------------------------------------------------------------------
(* Properties of add_struct_ref_data *)

\* the file of this pdb_id has a _struct_ref row for this entity
HasReference(pdb_id, entity_id) ==
    \E i \in 1..Len(rdata) :
        /\ ~database_code(rdata[i][2]).raised
        /\ database_code(rdata[i][2]).pdb_id = pdb_id
        /\ \E k \in 1..Len(rdata[i][2].struct_ref) : rdata[i][2].struct_ref[k].entity_id = entity_id

\* C25: add_struct_ref_data keeps the rows and their order, changes no column other
\* than db_name, db_code and db_accession, and changes a row only if it is a polymer
\* row whose pdb_id and entity_id are those of a _struct_ref row of its file.
C25_StructRefChangesOnlyMatchingPolymers ==
    [][rpc = "built" /\ rpc' # "built" =>
           /\ Len(table') = Len(table)
           /\ \A j \in 1..Len(table) :
                  /\ [table'[j] EXCEPT !.db_name = table[j].db_name, !.db_code = table[j].db_code,
                                       !.db_accession = table[j].db_accession] = table[j]
                  /\ table'[j] # table[j] =>
                         /\ table[j].type = Polymer
                         /\ HasReference(table[j].pdb_id, table[j].entity_id)]_vars

\* two files; a polymer row got the reference of its file, a non-polymer row whose
\* file has a reference for its entity did not
C25_Witness ==
    /\ rpc = "struct_ref"
    /\ Len(rdata) = 2
    /\ \E j, k \in 1..Len(table) :
           /\ table[j].type = Polymer
           /\ table[j].db_name = <<"GB">>
           /\ table[k].type = NonPolymer
           /\ table[k].db_name = NULL
           /\ HasReference(table[k].pdb_id, table[k].entity_id)

----------------------------------------------------------------------------
(* Properties of ExternalInformation *)

\* C26: the constructor reads nothing; the first get_inchi_key reads the file; over
\* any sequence of calls the file is read at most once, also when it has no data
\* rows, and whether or not the keys asked for are in it; after a call the dict holds
\* the rows of the file.
C26_FileReadAtMostOnce ==
    /\ lookups = 0 => file_reads = 0 /\ inchi_keys = <<>>
    /\ lookups > 0 => file_reads = 1
    /\ lookups > 0 => inchi_keys = dict_update(<<>>, csv_rows)

----------------------------------------------------------------------------
(* Properties of a configuration without "mmcif_order" *)

\* C27: when the configuration has no "mmcif_order" key, the end of run() does not
\* fail: the file is written, and every category has in it the items it had in the
\* store, in the order of their first insertion.
C27_MissingOrderWritesInsertionOrder ==
    ~mmcif_order.isdict /\ pc \in {"done", "crashed"} =>
        /\ pc = "done"
        /\ err = "none"
        /\ file = <<block>>
        /\ Keys(block) = Keys(data)
        /\ \A j \in 1..Len(block) : Keys(block[j][2]) = Keys(data[j][2])

----------------------------------------------------------------------------
(* Properties of the rows build_denormalised_data inserts *)

\* C28: after build_denormalised_data every row of the table has an ordinal, and it
\* is an integer of at least 1, whatever the kind of its entity.
C28_EveryRowHasPositiveOrdinal ==
    rpc = "built" =>
        \A j \in 1..Len(table) :
            /\ table[j].investigation_entity_id # <<>>
            /\ table[j].investigation_entity_id[1] \in Nat \ {0}

\* C29: build_denormalised_data does not fail because an entity that is not a polymer
\* comes first, and in the rows it inserts a row that is not a polymer row has an
\* empty sequence and an empty polymer subtype, and a polymer row has an empty
\* component id, whatever entities came before.
C29_KindFieldsFromOwnEntity ==
    /\ rpc = "raised" => err # "UnboundLocalError"
    /\ rpc = "built" =>
           \A j \in 1..Len(table) :
               IF table[j].type = Polymer THEN table[j].chem_comp_id = <<>>
               ELSE table[j].seq_one_letter_code = <<>> /\ table[j].poly_type = <<>>

============================================================================
